---- MODULE Spec2Model ----
(***************************************************************************)
(* Conversational tool-calling engine of homebox-companion:                *)
(*   - ChatSession (chat/session.py): message history, pending approvals,  *)
(*     structure-aware truncation, tool-result compression;                *)
(*   - the chat HTTP handlers (server/api/chat.py): the SSE event          *)
(*     generator, approve, reject, list pending;                           *)
(*   - the ChatOrchestrator turn loop (chat/orchestrator.py), modelled     *)
(*     from the specification sections 4.5 and 7;                          *)
(*   - json_completion (ai/json_completion.py): one request, one repair;   *)
(*   - the LLM profile store, the Router singleton and LLMClient.complete  *)
(*     (core/persistent_settings.py, server/api/llm_profiles.py,           *)
(*     core/llm_router.py, chat/llm_client.py);                            *)
(*   - the ToolExecutor (mcp/executor.py), modelled from the               *)
(*     specification section 4.1 and its unit tests;                       *)
(*   - the session store (chat/session.py get_session, clear_session);     *)
(*   - ToolResult.to_dict (mcp/types.py);                                  *)
(*   - TokenValidator and get_token (server/dependencies.py).              *)
(* The specifications share the state:                                     *)
(*   Spec            the server: turns, approve, reject, listing, time;    *)
(*   SpecHistory     ChatSession's history API driven directly with        *)
(*                   message shapes a single turn does not produce;        *)
(*   SpecLongHistory the same API on histories long enough to compress;    *)
(*   SpecApprovals   ChatSession's approval API driven directly;           *)
(*   SpecJson        json_completion driven directly;                      *)
(*   SpecLLM         profile handlers, get_router and complete;            *)
(*   SpecExecutor    the ToolExecutor's operations driven directly;        *)
(*   SpecSessions    get_session and clear_session driven directly;        *)
(*   SpecResults     serialised tool results stored and compressed;        *)
(*   SpecRepair      the repair request of json_completion;                *)
(*   SpecRace        get_router and save_settings, a thread each;          *)
(*   SpecConcurrentApprove  two approve requests on one event loop;        *)
(*   SpecAuth        TokenValidator and get_token driven directly.         *)
(***************************************************************************)
EXTENDS Integers, Sequences, FiniteSets, Bags, TLC

VARIABLES
    messages,           \* ChatSession.messages
    pending_approvals,  \* ChatSession.pending_approvals: approval id -> PendingApproval
    now,                \* the clock read by PendingApproval.is_expired
    pc,                 \* position of the running turn: idle, await, tools, done
    depth,              \* provider round trips made by the running turn
    calls,              \* tool calls of the current round not yet dispatched
    events,             \* the events delivered on the turn's SSE stream, in order
    next_approval,      \* approvals created so far (create_approval_id is fresh)
    tool_runs,          \* tool effects run against the inventory, in order
    response,           \* what the last approval request / session call returned
    view,               \* what the last get_history call returned
    json_call,          \* the json_completion call in progress or last finished
    settings_file,      \* data/settings.yaml: whether it exists, and its llm_profiles
    settings_cache,     \* the lru_cache of _get_settings_cached
    _router,            \* the module-level Router singleton of core/llm_router.py
    env_model,          \* config.settings.effective_llm_model
    llm_call,           \* the last LLMClient.complete call
    tool_result,        \* the last call made on the ToolExecutor and what it returned
    _sessions,          \* chat/session.py _sessions: session key -> ChatSession
    sessions_made,      \* ChatSession objects constructed so far (object identity)
    session_call,       \* the last get_session / clear_session call and its result
    repair_request,     \* the repair request json_completion builds: the texts it carries
    in_flight,          \* the approve requests suspended at await tool.execute
    _cache,             \* TokenValidator._cache: token hash -> validated_at
    _last_cleanup,      \* TokenValidator._last_cleanup
    clock,              \* time.time(), and how often it has been advanced
    marked_at,          \* history: per token, the time of its last mark_valid
                        \* since the last reset
    auth_call,          \* the last TokenValidator or get_token call and its answer
    builder,            \* a thread inside get_router: its position and what it has read
    saver               \* a thread inside save_settings: its position and its argument

vars == <<messages, pending_approvals, now, pc, depth, calls, events,
          next_approval, tool_runs, response, view, json_call,
          settings_file, settings_cache, _router, env_model, llm_call,
          tool_result, _sessions, sessions_made, session_call,
          repair_request, in_flight, builder, saver,
          _cache, _last_cleanup, clock, marked_at, auth_call>>

turnVars == <<pc, depth, calls, events>>

\* the state of the profile store, the Router singleton and the LLM client
llmVars == <<settings_file, settings_cache, _router, env_model, llm_call>>

\* the state of the ToolExecutor and of the session store
svcVars == <<tool_result, _sessions, sessions_made, session_call>>

\* the token validator and its clock
authVars == <<_cache, _last_cleanup, clock, marked_at, auth_call>>

\* the state of the components that are driven on their own
extVars == <<repair_request, in_flight, builder, saver, authVars>>

\* the state of the layers around the chat session
libVars == <<json_call, llmVars, svcVars, extVars>>

\* the state of the chat session and its handlers
chatVars == <<messages, pending_approvals, now, pc, depth, calls, events,
              next_approval, tool_runs, response, view>>

-----------------------------------------------------------------------------
(* Bounds of the model *)

MaxMsgs == 5           \* stored messages per behaviour of the server
MaxCalls == 2          \* tool calls in one provider response
MaxApprovals == 2      \* approvals created per behaviour
MaxTime == 2           \* the clock runs 0..MaxTime
ApprovalTimeout == 1   \* settings.chat_approval_timeout, a configured value
MaxHist == 4           \* history length when add_message is driven directly
MaxLongHist == 8       \* history length in the compression specification
ChatMaxHistory == 3    \* settings.chat_max_history, a configured value
MaxToolCalls == 3      \* calls made on the ToolExecutor when driven directly
MaxSessionCalls == 4   \* get_session / clear_session calls on the session store
MaxSessionMsgs == 1    \* messages added to one stored session
MaxTicks == 4          \* advances of the token validator's clock
MaxSaves == 2          \* save_settings calls of the saving thread
MaxOver == 60          \* first responses are up to this much shorter or longer
                       \* than MAX_REPAIR_CONTEXT_LENGTH

(* Program constants *)

_TOOL_COMPRESSION_THRESHOLD == 6

MAX_RESULT_ITEMS == 25

_DEFAULT_TTL == 300
_CLEANUP_INTERVAL == 300
MAX_REPAIR_CONTEXT_LENGTH == 2000

MAX_TOOL_RECURSION_DEPTH == 2

-----------------------------------------------------------------------------
(* Tool registry: names and permission classes *)

READ == "read"
WRITE == "write"
DESTRUCTIVE == "destructive"

ToolPermission ==
    [list_items |-> READ, create_item |-> WRITE, delete_item |-> DESTRUCTIVE]

ToolNames == DOMAIN ToolPermission

\* tool-call ids are opaque strings chosen by the provider; two distinct ones
\* tell a repeated id from a fresh one
CallIds == {1, 2}

NoId == 0              \* None, for tool_call_id and approval_id

-----------------------------------------------------------------------------
(* Message content.  Content is text; what the code reads back from it is   *)
(* whether it parses as a JSON object, its "success", the shape of "data",  *)
(* its "approval_id", and whether it is longer than 200 characters.         *)

DataShapes == {"none", "list", "dict_named", "dict_unnamed", "scalar"}

Content(kind, success, data, approval_id, long) ==
    [kind |-> kind, success |-> success, data |-> data,
     approval_id |-> approval_id, long |-> long, summary |-> "", cut |-> FALSE,
     items |-> 0, count |-> 0]

\* plain text, not JSON (user and assistant messages)
Text == Content("text", FALSE, "none", NoId, FALSE)

\* json.dumps of a JSON object with "success" and "data"/"error"
Json(success, data, long) == Content("json", success, data, NoId, long)

\* the placeholder a turn stores for a call that awaits approval
Placeholder(approval_id) == Content("json", FALSE, "none", approval_id, FALSE)

\* the shape of the data each tool returns on success
ToolData == [list_items |-> "list", create_item |-> "dict_named",
             delete_item |-> "dict_unnamed"]

\* ToolResult.to_dict, serialised
ToolResultContent(tool, ok) == Json(ok, IF ok THEN ToolData[tool] ELSE "none", FALSE)

\* result_message of approve_action, serialised
ResultMessage(tool, ok) == Json(ok, IF ok THEN ToolData[tool] ELSE "none", FALSE)

-----------------------------------------------------------------------------
(* ChatMessage and ToolCall *)

ToolCall(id, name) == [id |-> id, name |-> name]

ChatMessage(role, content, tool_calls, tool_call_id) ==
    [role |-> role, content |-> content, tool_calls |-> tool_calls,
     tool_call_id |-> tool_call_id]

UserMessage == ChatMessage("user", Text, <<>>, NoId)

AssistantMessage(tool_calls) == ChatMessage("assistant", Text, tool_calls, NoId)

ToolMessage(tool_call_id, content) == ChatMessage("tool", content, <<>>, tool_call_id)

CallIdsOf(msg) == {msg.tool_calls[k].id : k \in DOMAIN msg.tool_calls}

\* ChatMessage.to_llm_format: role and content always, tool_calls and
\* tool_call_id only when truthy; the timestamp is dropped
to_llm_format(msg) ==
    LET base == [role |-> msg.role, content |-> msg.content]
        withCalls == IF msg.tool_calls # <<>>
                     THEN base @@ [tool_calls |-> msg.tool_calls] ELSE base
    IN  IF msg.tool_call_id # NoId
        THEN withCalls @@ [tool_call_id |-> msg.tool_call_id] ELSE withCalls

-----------------------------------------------------------------------------
(* ToolResult.to_dict (mcp/types.py) *)

\* what a tool returns as data: a list, by its length, or a single entity,
\* by whether it has a "name"
ListData(len) == [shape |-> "list", len |-> len, named |-> FALSE]

EntityData(named) == [shape |-> "dict", len |-> 0, named |-> named]

\* a list longer than MAX_RESULT_ITEMS becomes a dict with "items",
\* "_truncated", "_total" and "_showing"
_truncate_data(data) ==
    IF data.shape = "list" /\ data.len > MAX_RESULT_ITEMS
    THEN [shape |-> "capped", len |-> data.len, named |-> FALSE]
    ELSE data

\* json.dumps(ToolResult(success=True, data=data).to_dict()): items is the
\* length of the list in "data", or the "_total" of a capped one; the text
\* length is not read when "data" is a list or a dict
to_dict(data) ==
    LET truncated == _truncate_data(data)
        shape == IF truncated.shape = "list" THEN "list"
                 ELSE IF truncated.shape = "dict" /\ truncated.named THEN "dict_named"
                 ELSE "dict_unnamed"
    IN  [Json(TRUE, shape, FALSE) EXCEPT !.items = truncated.len]

-----------------------------------------------------------------------------
(* ChatSession.get_history and _compress_tool_result *)

\* content[:200] + "..." if len(content) > 200 else content
Truncated(content) == IF content.long THEN [content EXCEPT !.cut = TRUE] ELSE content

_compress_tool_result(content) ==
    IF content.kind # "json" THEN Truncated(content)
    ELSE IF content.success /\ content.data = "list"
         THEN [Json(TRUE, "none", FALSE) EXCEPT !.summary = "items returned",
                                                !.count = content.items]
    ELSE IF content.success /\ content.data \in {"dict_named", "dict_unnamed"}
         THEN [Json(TRUE, "none", FALSE) EXCEPT !.summary =
                  IF content.data = "dict_named" THEN "Retrieved: name"
                  ELSE "Retrieved: item"]
    ELSE Truncated(content)

\* indices below are the code's, 0-based
At(msgs, i) == msgs[i + 1]

RECURSIVE WalkBackOverTools(_, _)
WalkBackOverTools(msgs, start_idx) ==
    IF start_idx > 0 /\ At(msgs, start_idx).role = "tool"
    THEN WalkBackOverTools(msgs, start_idx - 1)
    ELSE start_idx

RECURSIVE WalkBackToAssistant(_, _)
WalkBackToAssistant(msgs, start_idx) ==
    IF start_idx > 0
       /\ ~(At(msgs, start_idx).role = "assistant"
            /\ At(msgs, start_idx).tool_calls # <<>>)
    THEN WalkBackToAssistant(msgs, start_idx - 1)
    ELSE start_idx

\* a slice that never moves back
StartIdxPlain(msgs, limit) == Len(msgs) - limit

StartIdx(msgs, limit) ==
    LET first == WalkBackOverTools(msgs, Len(msgs) - limit)
    IN  IF first < Len(msgs) - 1 /\ At(msgs, first + 1).role = "tool"
        THEN WalkBackToAssistant(msgs, first)
        ELSE first

\* limit = max_messages or settings.chat_max_history
Limit(max_messages) == IF max_messages = 0 THEN ChatMaxHistory ELSE max_messages

RecentMessages(msgs, max_messages) ==
    LET limit == Limit(max_messages)
    IN  IF limit = 0 \/ Len(msgs) <= limit THEN msgs
        ELSE SubSeq(msgs, StartIdx(msgs, limit) + 1, Len(msgs))

\* a threshold test that is off by one
FormatEntryInclusive(recent, i) ==
    LET formatted == to_llm_format(recent[i])
        messages_from_end == Len(recent) - (i - 1)
    IN  IF recent[i].role = "tool" /\ messages_from_end >= _TOOL_COMPRESSION_THRESHOLD
        THEN [formatted EXCEPT !.content = _compress_tool_result(formatted.content)]
        ELSE formatted

FormatEntry(recent, i) ==
    LET formatted == to_llm_format(recent[i])
        messages_from_end == Len(recent) - (i - 1)
    IN  IF recent[i].role = "tool" /\ messages_from_end > _TOOL_COMPRESSION_THRESHOLD
        THEN [formatted EXCEPT !.content = _compress_tool_result(formatted.content)]
        ELSE formatted

get_history(msgs, max_messages) ==
    LET recent == RecentMessages(msgs, max_messages)
    IN  [i \in 1..Len(recent) |-> FormatEntry(recent, i)]

-----------------------------------------------------------------------------
(* ChatSession: approvals and the placeholder update *)

PendingApproval(id, tool_name, created_at) ==
    [id |-> id, tool_name |-> tool_name, created_at |-> created_at,
     expires_at |-> created_at + ApprovalTimeout]

is_expired(approval, t) == t > approval.expires_at

Without(approvals, ids) ==
    [a \in DOMAIN approvals \ ids |-> approvals[a]]

add_pending_approval(approvals, approval) ==
    [a \in DOMAIN approvals \cup {approval.id} |->
        IF a = approval.id THEN approval ELSE approvals[a]]

\* a lookup that forgets the expiry
FoundIgnoringExpiry(approvals, id, t) == id \in DOMAIN approvals

\* get_pending_approval returns the approval or None and may evict it
Found(approvals, id, t) ==
    id \in DOMAIN approvals /\ ~is_expired(approvals[id], t)

\* a lookup that answers None for an expired approval and leaves it stored
AfterLookupKeeps(approvals, id, t) == approvals

AfterLookup(approvals, id, t) ==
    IF id \in DOMAIN approvals /\ is_expired(approvals[id], t)
    THEN Without(approvals, {id})
    ELSE approvals

remove_approval(approvals, id) == Without(approvals, {id})

\* a sweep that also takes the approvals expiring at this instant
ExpiredIdsInclusive(approvals, t) ==
    {a \in DOMAIN approvals : t >= approvals[a].expires_at}

ExpiredIds(approvals, t) == {a \in DOMAIN approvals : is_expired(approvals[a], t)}

cleanup_expired(approvals, t) == Without(approvals, ExpiredIds(approvals, t))

\* the first tool-role message with this tool_call_id, 0 when there is none
FirstToolMessage(msgs, tool_call_id) ==
    LET hits == {i \in DOMAIN msgs :
                    msgs[i].role = "tool" /\ msgs[i].tool_call_id = tool_call_id}
    IN  IF hits = {} THEN 0 ELSE CHOOSE i \in hits : \A j \in hits : i <= j

\* an update that stores a rebuilt message and loses the tool_call_id
update_tool_message_rebuilt(msgs, tool_call_id, new_content) ==
    LET i == FirstToolMessage(msgs, tool_call_id)
    IN  IF i = 0 THEN msgs ELSE [msgs EXCEPT ![i] = ToolMessage(NoId, new_content)]

update_tool_message(msgs, tool_call_id, new_content) ==
    LET i == FirstToolMessage(msgs, tool_call_id)
    IN  IF i = 0 THEN msgs ELSE [msgs EXCEPT ![i].content = new_content]

\* the last tool-role message whose JSON content names this approval;
\* its tool_call_id, or NoId
get_tool_call_id_for_approval(msgs, approval_id) ==
    LET hits == {i \in DOMAIN msgs :
                    /\ msgs[i].role = "tool"
                    /\ msgs[i].tool_call_id # NoId
                    /\ msgs[i].content.kind = "json"
                    /\ msgs[i].content.approval_id = approval_id}
    IN  IF hits = {} THEN NoId
        ELSE msgs[CHOOSE i \in hits : \A j \in hits : j <= i].tool_call_id


-----------------------------------------------------------------------------
(* The state after construction: an empty session, no turn running *)

-----------------------------------------------------------------------------
(* ai/json_completion.py: one completion with a single repair attempt *)

Keys == {"items", "name"}

\* expected_keys: None or an empty list, or a list of keys
ExpectedKeys == {{}, {"items"}, {"items", "name"}}

\* message.content of a completion: whether it is wrapped in a markdown
\* fence ("block": fence lines around the text; "inline": fence marks on the
\* same line as the text), what the text is, and the keys of a JSON object
RawContent(fence, body, keys) == [fence |-> fence, body |-> body, keys |-> keys]

RawContents ==
    {RawContent(fence, body, {}) :
        fence \in {"none", "block", "inline"}, body \in {"malformed", "array"}}
    \cup {RawContent(fence, "object", keys) :
            fence \in {"none", "block", "inline"}, keys \in SUBSET Keys}

\* what router.acompletion gives: it raises, or returns a completion with no
\* choices, or one whose message content is None or a string
Completions ==
    {[kind |-> "raises"], [kind |-> "no_choices"], [kind |-> "none_content"]}
    \cup {[kind |-> "content", content |-> c] : c \in RawContents}

\* the string "{}" that replaces a None content
EmptyObject == RawContent("none", "object", {})

_strip_markdown_code_blocks(content) ==
    IF content.fence = "block" THEN [content EXCEPT !.fence = "none"] ELSE content

NoValue == [object |-> FALSE, keys |-> {}]

\* _parse_json_response: the parsed dict and the error, "" standing for None
_parse_json_response(raw_content, expected_keys) ==
    LET stripped == _strip_markdown_code_blocks(raw_content)
    IN  IF stripped.fence # "none" \/ stripped.body = "malformed"
        THEN [parsed |-> NoValue, error |-> "JSON parse error"]
        ELSE IF stripped.body # "object"
        THEN [parsed |-> NoValue, error |-> "Expected JSON object"]
        ELSE IF expected_keys # {} /\ expected_keys \ stripped.keys # {}
        THEN [parsed |-> [object |-> TRUE, keys |-> stripped.keys],
              error |-> "Missing required keys"]
        ELSE [parsed |-> [object |-> TRUE, keys |-> stripped.keys], error |-> ""]

NoContent == RawContent("none", "none", {})

JsonCall(at, expected_keys, requests, first, repaired, outcome, value) ==
    [at |-> at, expected_keys |-> expected_keys, requests |-> requests,
     first |-> first, repaired |-> repaired, outcome |-> outcome, value |-> value]

IdleCall == JsonCall("idle", {}, <<>>, NoContent, NoContent, "none", NoValue)

Raised(call, error) ==
    [call EXCEPT !.at = "finished", !.outcome = error]

Returned(call, parsed) ==
    [call EXCEPT !.at = "finished", !.outcome = "value", !.value = parsed]

\* json_completion up to the first router.acompletion; the rate limiter may
\* time out before any request is made
JsonCompletion(expected_keys, admitted) ==
    /\ json_call.at \in {"idle", "finished"}
    /\ json_call' =
          IF admitted
          THEN JsonCall("first", expected_keys, <<>>, NoContent, NoContent, "none", NoValue)
          ELSE Raised(JsonCall("first", expected_keys, <<>>, NoContent, NoContent,
                               "none", NoValue), "LLMServiceError")
    /\ UNCHANGED <<chatVars, svcVars, extVars>>
    /\ UNCHANGED llmVars

\* the first request answered: lines 248-295
FirstCompletion(completion, admitted) ==
    /\ json_call.at = "first"
    /\ LET sent == [json_call EXCEPT !.requests = Append(@, "first")]
           raw_content == IF completion.kind = "none_content" THEN EmptyObject
                          ELSE completion.content
       IN  json_call' =
              IF completion.kind \in {"raises", "no_choices"}
              THEN Raised(sent, "LLMServiceError")
              ELSE LET r == _parse_json_response(raw_content, json_call.expected_keys)
                   IN  IF r.error = ""
                       THEN Returned([sent EXCEPT !.first = raw_content], r.parsed)
                       ELSE IF admitted
                       THEN [sent EXCEPT !.first = raw_content, !.at = "repair"]
                       ELSE Raised([sent EXCEPT !.first = raw_content], "LLMServiceError")
    /\ UNCHANGED <<chatVars, svcVars, extVars>>
    /\ UNCHANGED llmVars

\* a repair whose invalid response is answered with one more repair request
RepairCompletionRetries(completion) ==
    /\ json_call.at = "repair"
    /\ LET sent == [json_call EXCEPT !.requests = Append(@, "repair")]
           repaired_content == IF completion.kind = "none_content" THEN EmptyObject
                               ELSE completion.content
       IN  json_call' =
              IF completion.kind \in {"raises", "no_choices"}
              THEN Raised(sent, "JSONRepairError")
              ELSE LET r == _parse_json_response(repaired_content, json_call.expected_keys)
                   IN  IF r.error = ""
                       THEN Returned([sent EXCEPT !.repaired = repaired_content], r.parsed)
                       ELSE IF Len(sent.requests) < 3
                       THEN [sent EXCEPT !.repaired = repaired_content]
                       ELSE Raised([sent EXCEPT !.repaired = repaired_content],
                                   "JSONRepairError")
    /\ UNCHANGED <<chatVars, svcVars, extVars>>
    /\ UNCHANGED llmVars

\* a repair whose response is returned whenever it parses as an object
RepairCompletionUnchecked(completion) ==
    /\ json_call.at = "repair"
    /\ LET sent == [json_call EXCEPT !.requests = Append(@, "repair")]
           repaired_content == IF completion.kind = "none_content" THEN EmptyObject
                               ELSE completion.content
       IN  json_call' =
              IF completion.kind \in {"raises", "no_choices"}
              THEN Raised(sent, "JSONRepairError")
              ELSE LET r == _parse_json_response(repaired_content, {})
                   IN  IF r.error = ""
                       THEN Returned([sent EXCEPT !.repaired = repaired_content], r.parsed)
                       ELSE Raised([sent EXCEPT !.repaired = repaired_content],
                                   "JSONRepairError")
    /\ UNCHANGED <<chatVars, svcVars, extVars>>
    /\ UNCHANGED llmVars

\* the repair request answered: lines 299-325
RepairCompletion(completion) ==
    /\ json_call.at = "repair"
    /\ LET sent == [json_call EXCEPT !.requests = Append(@, "repair")]
           repaired_content == IF completion.kind = "none_content" THEN EmptyObject
                               ELSE completion.content
       IN  json_call' =
              IF completion.kind \in {"raises", "no_choices"}
              THEN Raised(sent, "JSONRepairError")
              ELSE LET r == _parse_json_response(repaired_content, json_call.expected_keys)
                   IN  IF r.error = ""
                       THEN Returned([sent EXCEPT !.repaired = repaired_content], r.parsed)
                       ELSE Raised([sent EXCEPT !.repaired = repaired_content],
                                   "JSONRepairError")
    /\ UNCHANGED <<chatVars, svcVars, extVars>>
    /\ UNCHANGED llmVars


\* a text is the sequence of its characters; the characters of the first
\* response are numbered by their position, 0 is a character of the marker
RawText(n) == [i \in 1..n |-> i]

\* "\n\n... (truncated) ...\n\n"
TruncationMarker == [i \in 1..23 |-> 0]

\* original_response[:head_chars]
HeadChars(original_response, head_chars) ==
    SubSeq(original_response, 1,
           IF head_chars < Len(original_response) THEN head_chars
           ELSE Len(original_response))

\* original_response[-tail_chars:], tail_chars > 0
TailChars(original_response, tail_chars) ==
    SubSeq(original_response,
           IF tail_chars < Len(original_response)
           THEN Len(original_response) - tail_chars + 1 ELSE 1,
           Len(original_response))

\* _build_repair_prompt: the text placed between the code fences
truncated_response(original_response) ==
    IF Len(original_response) > MAX_REPAIR_CONTEXT_LENGTH
    THEN LET head_chars == (MAX_REPAIR_CONTEXT_LENGTH * 7) \div 10
             tail_chars == MAX_REPAIR_CONTEXT_LENGTH - head_chars - 20
         IN  HeadChars(original_response, head_chars) \o TruncationMarker
                \o TailChars(original_response, tail_chars)
    ELSE original_response

\* the repair request: raw_content is the first response; assistant is the
\* content of the assistant message appended to the request, embedded the
\* copy inside the repair prompt appended after it
RepairRequest(at, raw_content, assistant, embedded) ==
    [at |-> at, raw_content |-> raw_content, assistant |-> assistant,
     embedded |-> embedded]

NoRepairRequest == RepairRequest("idle", <<>>, <<>>, <<>>)

\* the first response, of n characters, failed validation
FirstResponseInvalid(n) ==
    /\ repair_request.at = "idle"
    /\ repair_request' = RepairRequest("invalid", RawText(n), <<>>, <<>>)
    /\ UNCHANGED <<chatVars, json_call, llmVars, svcVars,
                   in_flight, builder, saver, authVars>>

\* json_completion 289-292: build the prompt, append the assistant message
\* with the raw content and the user message with the prompt
BuildRepairMessages ==
    /\ repair_request.at = "invalid"
    /\ repair_request' =
            RepairRequest("built", repair_request.raw_content,
                          repair_request.raw_content,
                          truncated_response(repair_request.raw_content))
    /\ UNCHANGED <<chatVars, json_call, llmVars, svcVars,
                   in_flight, builder, saver, authVars>>

RawLengths ==
    {0} \cup ((MAX_REPAIR_CONTEXT_LENGTH - MaxOver)..(MAX_REPAIR_CONTEXT_LENGTH + MaxOver))

NextRepair ==
    \/ \E n \in RawLengths : FirstResponseInvalid(n)
    \/ BuildRepairMessages

-----------------------------------------------------------------------------
(* core/persistent_settings.py, core/llm_router.py, server/api/llm_profiles.py *)

PRIMARY == "primary"
FALLBACK == "fallback"
OFF == "off"

ProfileStatus == {PRIMARY, FALLBACK, OFF}

NoModel == ""

EnvModels == {NoModel, "env-model"}

\* the profile names requests use; a profile created by a request uses the
\* model of the same name
ProfileNames == {"a", "b"}

ModelProfile(name, model, status) == [name |-> name, model |-> model, status |-> status]

WithStatus(profiles, status) == {i \in DOMAIN profiles : profiles[i].status = status}

\* PersistentSettings.validate_profile_constraints: TRUE when it returns,
\* FALSE when it raises ValueError
validate_profile_constraints(profiles) ==
    \/ profiles = <<>>
    \/ /\ Cardinality(WithStatus(profiles, PRIMARY)) = 1
       /\ Cardinality(WithStatus(profiles, FALLBACK)) <= 1

bootstrap_from_env(model) ==
    IF model # NoModel THEN <<ModelProfile("default", model, PRIMARY)>> ELSE <<>>

NoFile == [exists |-> FALSE, llm_profiles |-> <<>>]

\* the file save_settings writes
Saved(profiles) == [exists |-> TRUE, llm_profiles |-> profiles]

\* load_settings: the settings it returns
load_settings(file, model) ==
    IF ~file.exists THEN bootstrap_from_env(model)
    ELSE IF validate_profile_constraints(file.llm_profiles) THEN file.llm_profiles
    ELSE bootstrap_from_env(model)

\* load_settings: the file it leaves (it saves what it bootstraps when there
\* was no file)
FileAfterLoad(file, model) ==
    IF ~file.exists THEN Saved(bootstrap_from_env(model)) ELSE file

NoSettings == [loaded |-> FALSE, llm_profiles |-> <<>>]

Cached(profiles) == [loaded |-> TRUE, llm_profiles |-> profiles]

NoRouter == [built |-> FALSE, primary |-> NoModel, fallback |-> NoModel]

Router(primary, fallback) == [built |-> TRUE, primary |-> primary, fallback |-> fallback]

\* the first profile of that status, as get_primary_profile and
\* get_fallback_profile scan for it; 0 when there is none
FirstWithStatus(profiles, status) ==
    IF WithStatus(profiles, status) = {} THEN 0
    ELSE CHOOSE i \in WithStatus(profiles, status) :
            \A j \in WithStatus(profiles, status) : i <= j

ModelWithStatus(profiles, status) ==
    IF FirstWithStatus(profiles, status) = 0 THEN NoModel
    ELSE profiles[FirstWithStatus(profiles, status)].model

\* _find_profile: the index of the profile of that name, 0 for the 404
_find_profile(profiles, name) ==
    IF \E i \in DOMAIN profiles : profiles[i].name = name
    THEN CHOOSE i \in DOMAIN profiles : profiles[i].name = name
    ELSE 0

\* every profile of that status set to OFF
Demoted(profiles, status) ==
    [i \in DOMAIN profiles |->
        IF profiles[i].status = status THEN [profiles[i] EXCEPT !.status = OFF]
        ELSE profiles[i]]

\* save_settings: writes the file, clears the cache, invalidates the Router
save_settings(profiles) ==
    /\ settings_file' = Saved(profiles)
    /\ settings_cache' = NoSettings
    /\ _router' = NoRouter

\* a handler that raises after clear_settings_cache and load_settings
LoadedOnly ==
    /\ settings_file' = FileAfterLoad(settings_file, env_model)
    /\ settings_cache' = NoSettings
    /\ _router' = IF settings_file.exists THEN _router ELSE NoRouter

create_profile(name, status) ==
    LET settings == load_settings(settings_file, env_model)
        new_status == IF settings = <<>> THEN PRIMARY ELSE status
    IN  /\ IF _find_profile(settings, name) # 0
           THEN LoadedOnly
           ELSE save_settings(Append(settings, ModelProfile(name, name, new_status)))
        /\ UNCHANGED <<env_model, llm_call, json_call>>
        /\ UNCHANGED <<chatVars, svcVars, extVars>>

NoName == ""

NoStatus == ""

\* update_profile with new_name and status given or left out
update_profile(name, new_name, status) ==
    LET settings == load_settings(settings_file, env_model)
        idx == _find_profile(settings, name)
        renames == new_name # NoName /\ new_name # name
        renamed == IF renames THEN [settings EXCEPT ![idx].name = new_name] ELSE settings
        demoted == IF status \in {PRIMARY, FALLBACK} THEN Demoted(renamed, status)
                   ELSE renamed
        updated == IF status # NoStatus THEN [demoted EXCEPT ![idx].status = status]
                   ELSE demoted
    IN  /\ IF idx = 0 \/ (renames /\ _find_profile(settings, new_name) # 0)
           THEN LoadedOnly
           ELSE save_settings(updated)
        /\ UNCHANGED <<env_model, llm_call, json_call>>
        /\ UNCHANGED <<chatVars, svcVars, extVars>>

\* the sequence without its element idx
DeleteAt(profiles, idx) ==
    [i \in 1..(Len(profiles) - 1) |-> IF i < idx THEN profiles[i] ELSE profiles[i + 1]]

delete_profile(name) ==
    LET settings == load_settings(settings_file, env_model)
        idx == _find_profile(settings, name)
        was_active == settings[idx].status = PRIMARY
        rest == DeleteAt(settings, idx)
        remaining == IF was_active /\ rest # <<>>
                     THEN [rest EXCEPT ![1].status = PRIMARY] ELSE rest
    IN  /\ IF idx = 0 THEN LoadedOnly ELSE save_settings(remaining)
        /\ UNCHANGED <<env_model, llm_call, json_call>>
        /\ UNCHANGED <<chatVars, svcVars, extVars>>

activate_profile(name) ==
    LET settings == load_settings(settings_file, env_model)
        idx == _find_profile(settings, name)
        activated == [Demoted(settings, PRIMARY) EXCEPT ![idx].status = PRIMARY]
    IN  /\ IF idx = 0 THEN LoadedOnly ELSE save_settings(activated)
        /\ UNCHANGED <<env_model, llm_call, json_call>>
        /\ UNCHANGED <<chatVars, svcVars, extVars>>

\* get_router: returns the singleton, or builds it from get_settings()
get_router ==
    LET settings == IF settings_cache.loaded THEN settings_cache.llm_profiles
                    ELSE load_settings(settings_file, env_model)
        primary == ModelWithStatus(settings, PRIMARY)
        model == IF primary # NoModel THEN primary ELSE env_model
    IN  /\ IF _router.built
           THEN UNCHANGED <<settings_file, settings_cache, _router>>
           ELSE /\ settings_file' =
                      IF settings_cache.loaded THEN settings_file
                      ELSE FileAfterLoad(settings_file, env_model)
                /\ settings_cache' = Cached(settings)
                /\ _router' = IF model = NoModel THEN NoRouter
                              ELSE Router(model, ModelWithStatus(settings, FALLBACK))
        /\ UNCHANGED <<env_model, llm_call, json_call>>
        /\ UNCHANGED <<chatVars, svcVars, extVars>>

\* get_router and save_settings, statement by statement, each in a thread
\* of its own

raceFrame ==
    UNCHANGED <<chatVars, json_call, env_model, llm_call, svcVars, repair_request, in_flight,
                authVars>>

\* get_settings through _get_settings_cached: the settings a reader gets
CurrentSettings ==
    IF settings_cache.loaded THEN settings_cache.llm_profiles
    ELSE load_settings(settings_file, env_model)

\* the lru_cache keeps what it loaded; load_settings writes a missing file
ReadSettings ==
    /\ settings_cache' = Cached(CurrentSettings)
    /\ settings_file' = IF settings_cache.loaded THEN settings_file
                        ELSE FileAfterLoad(settings_file, env_model)

\* get_router, line 116: if _router is None
GetRouterTest ==
    /\ builder.pc = "idle"
    /\ builder' = [builder EXCEPT !.pc = IF _router.built THEN "idle" ELSE "primary"]
    /\ UNCHANGED <<settings_file, settings_cache, _router, saver>>
    /\ raceFrame

\* _build_router_from_profiles, line 168: resolve_llm_credentials reads the
\* PRIMARY profile, or the environment's model; no model raises ValueError
BuildReadPrimary ==
    /\ builder.pc = "primary"
    /\ LET primary == ModelWithStatus(CurrentSettings, PRIMARY)
           model == IF primary # NoModel THEN primary ELSE env_model
       IN  builder' = IF model = NoModel THEN [builder EXCEPT !.pc = "idle"]
                      ELSE [builder EXCEPT !.pc = "fallback", !.primary = model]
    /\ ReadSettings
    /\ UNCHANGED <<_router, saver>>
    /\ raceFrame

\* _build_router_from_profiles, line 196: get_fallback_profile
BuildReadFallback ==
    /\ builder.pc = "fallback"
    /\ builder' = [builder EXCEPT !.pc = "install",
                                  !.fallback = ModelWithStatus(CurrentSettings, FALLBACK)]
    /\ ReadSettings
    /\ UNCHANGED <<_router, saver>>
    /\ raceFrame

\* get_router, line 117: _router = <the Router that was built>
GetRouterInstall ==
    /\ builder.pc = "install"
    /\ _router' = Router(builder.primary, builder.fallback)
    /\ builder' = [pc |-> "idle", primary |-> NoModel, fallback |-> NoModel]
    /\ UNCHANGED <<settings_file, settings_cache, saver>>
    /\ raceFrame

\* save_settings, line 316: with _settings_lock (one saving thread)
SaveEnter(profiles) ==
    /\ saver.pc = "idle"
    /\ saver.returned < MaxSaves
    /\ saver' = [saver EXCEPT !.pc = "write", !.llm_profiles = profiles]
    /\ UNCHANGED <<settings_file, settings_cache, _router, builder>>
    /\ raceFrame

\* save_settings, line 324: SETTINGS_FILE.write_text
SaveWrite ==
    /\ saver.pc = "write"
    /\ settings_file' = Saved(saver.llm_profiles)
    /\ saver' = [saver EXCEPT !.pc = "clear"]
    /\ UNCHANGED <<settings_cache, _router, builder>>
    /\ raceFrame

\* save_settings, line 328: _get_settings_cached.cache_clear()
SaveClearCache ==
    /\ saver.pc = "clear"
    /\ settings_cache' = NoSettings
    /\ saver' = [saver EXCEPT !.pc = "invalidate"]
    /\ UNCHANGED <<settings_file, _router, builder>>
    /\ raceFrame

\* save_settings, line 333: invalidate_router(), then the function returns
SaveInvalidate ==
    /\ saver.pc = "invalidate"
    /\ _router' = NoRouter
    /\ saver' = [saver EXCEPT !.pc = "idle", !.returned = @ + 1]
    /\ UNCHANGED <<settings_file, settings_cache, builder>>
    /\ raceFrame

\* the profile lists the saving thread saves: each passes the validator
SavedLists ==
    {<<ModelProfile("a", "a", PRIMARY)>>,
     <<ModelProfile("b", "b", PRIMARY)>>,
     <<ModelProfile("a", "a", PRIMARY), ModelProfile("b", "b", FALLBACK)>>}

NextRace ==
    \/ GetRouterTest
    \/ BuildReadPrimary
    \/ BuildReadFallback
    \/ GetRouterInstall
    \/ \E profiles \in SavedLists : SaveEnter(profiles)
    \/ SaveWrite
    \/ SaveClearCache
    \/ SaveInvalidate

NoCall == [requests |-> <<>>, outcome |-> "none", fallback |-> NoModel]

\* the FALLBACK profile get_fallback_profile would return now
ConfiguredFallback ==
    ModelWithStatus(IF settings_cache.loaded THEN settings_cache.llm_profiles
                    ELSE load_settings(settings_file, env_model), FALLBACK)

\* LLMClient.complete: one litellm.acompletion request with the model of
\* _build_request_kwargs; an exception of the request propagates
complete(succeeds) ==
    /\ llm_call' = [requests |-> <<env_model>>,
                    outcome |-> IF succeeds THEN "response" ELSE "raises",
                    fallback |-> ConfiguredFallback]
    /\ UNCHANGED <<settings_file, settings_cache, _router, env_model, json_call>>
    /\ UNCHANGED <<chatVars, svcVars, extVars>>

NextLLM ==
    \/ \E name \in ProfileNames, status \in ProfileStatus : create_profile(name, status)
    \/ \E name \in ProfileNames, new_name \in ProfileNames \cup {NoName},
          status \in ProfileStatus \cup {NoStatus} : update_profile(name, new_name, status)
    \/ \E name \in ProfileNames \cup {"default"} : delete_profile(name)
    \/ \E name \in ProfileNames \cup {"default"} : activate_profile(name)
    \/ get_router
    \/ \E succeeds \in BOOLEAN : complete(succeeds)

-----------------------------------------------------------------------------
(* Initial state *)

\* no get_history call has returned since the history last changed
NoView == [max_messages |-> 0 - 1, entries |-> <<>>]

NoApproval == [id |-> NoId, tool_name |-> "", created_at |-> 0, expires_at |-> 0]

\* the approve requests the server is handling at once
Requests == {1, 2}

NoTime == 0 - 1        \* no validation recorded

Tokens == {"t1", "t2"}

AuthCall(op, token, status, answer, validated, evicted, serial) ==
    [op |-> op, token |-> token, status |-> status, answer |-> answer,
     validated |-> validated, evicted |-> evicted, serial |-> serial]

NoAuthCall == AuthCall("none", "", 0, FALSE, FALSE, FALSE, 0)

NoRequest == [pc |-> "idle", id |-> NoId, approval |-> NoApproval, tool_call_id |-> NoId]

\* serial tells two consecutive equal answers apart; evicted says that the
\* lookup found the approval expired and removed it; approval is the approval
\* get_pending_approval returned, NoApproval for None; listed is what
\* list_pending_approvals returned and removed what cleanup_expired returned
NoResponse == [op |-> "none", id |-> NoId, status |-> 0, serial |-> 0,
               evicted |-> FALSE, approval |-> NoApproval,
               listed |-> {}, removed |-> 0]

\* ToolResult(success, error); none marks the None of execute_if_allowed
ToolResult(success, error) == [none |-> FALSE, success |-> success, error |-> error]

NoResult == [none |-> TRUE, success |-> FALSE, error |-> ""]

\* one call on the executor: n counts the calls, valid says whether the
\* parameters passed the tool's schema, answer is requires_approval's reply
ToolCallRecord(op, name, allow_write, valid, result, answer, n) ==
    [op |-> op, name |-> name, allow_write |-> allow_write, valid |-> valid,
     result |-> result, answer |-> answer, n |-> n]

NoToolCall == ToolCallRecord("none", "", FALSE, FALSE, NoResult, FALSE, 0)

\* a ChatSession object: oid is its identity, messages and pending_approvals
\* its two fields (session.py 130-131)
ChatSession(oid) == [oid |-> oid, messages |-> <<>>, pending_approvals |-> {}]

NoSession == [oid |-> 0, messages |-> <<>>, pending_approvals |-> {}]

\* one call on the session store: n counts the calls, session is what
\* get_session returned, removed what clear_session returned
SessionCall(op, token, session, removed, n) ==
    [op |-> op, token |-> token, session |-> session, removed |-> removed, n |-> n]

NoSessionCall == SessionCall("none", "", NoSession, FALSE, 0)

InitChat ==
    /\ messages = <<>>
    /\ pending_approvals = <<>>
    /\ now = 0
    /\ pc = "idle"
    /\ depth = 0
    /\ calls = <<>>
    /\ events = <<>>
    /\ next_approval = 0
    /\ tool_runs = EmptyBag
    /\ response = NoResponse
    /\ view = NoView
    /\ json_call = IdleCall
    /\ settings_file = NoFile
    /\ settings_cache = NoSettings
    /\ _router = NoRouter
    /\ llm_call = NoCall
    /\ tool_result = NoToolCall
    /\ _sessions = <<>>
    /\ sessions_made = 0
    /\ session_call = NoSessionCall
    /\ repair_request = NoRepairRequest
    /\ in_flight = [r \in Requests |-> NoRequest]
    /\ _cache = <<>>
    /\ _last_cleanup = 0
    /\ clock = [time |-> 0, ticks |-> 0]
    /\ marked_at = [token \in Tokens |-> NoTime]
    /\ auth_call = NoAuthCall
    /\ builder = [pc |-> "idle", primary |-> NoModel, fallback |-> NoModel]
    /\ saver = [pc |-> "idle", llm_profiles |-> <<>>, returned |-> 0]

\* the environment names a model
Init == InitChat /\ env_model = "env-model"

\* the environment may name no model
InitLLM == InitChat /\ env_model \in EnvModels

-----------------------------------------------------------------------------
(* ChatOrchestrator.process_message, one turn *)

Event(type, message, id) == [type |-> type, message |-> message, id |-> id]

Done == Event("done", "", NoId)

ErrorEvent(message) == Event("error", message, NoId)

ToolRun(tool, by, approval) == [tool |-> tool, by |-> by, approval |-> approval]

\* a gate that defers deletions only
requires_approval_destructive_only(name) == ToolPermission[name] = DESTRUCTIVE

\* a gate that lets unregistered names through
requires_approval_fail_open(name) ==
    name \in ToolNames /\ ToolPermission[name] \in {WRITE, DESTRUCTIVE}

\* ToolExecutor.requires_approval: an unregistered name requires approval
requires_approval(name) ==
    IF name \notin ToolNames THEN TRUE
    ELSE ToolPermission[name] \in {WRITE, DESTRUCTIVE}

-----------------------------------------------------------------------------
(* ToolExecutor (mcp/executor.py), modelled from the specification section  *)
(* 4.1 and from tests/test_tool_executor.py                                 *)

\* the names a caller may pass: the registered ones and one that is not
ExecNames == ToolNames \cup {"nonexistent"}

NoPermission == "none"

\* ToolExecutor.get_permission: None for an unregistered name
get_permission(name) ==
    IF name \in ToolNames THEN ToolPermission[name] ELSE NoPermission

\* execute(name, params, token): an unknown name and invalid parameters give
\* a failed result without invoking the tool; an exception raised by the
\* tool (ok = FALSE) is converted into a failed result
ExecuteOutcome(name, valid, ok) ==
    IF name \notin ToolNames THEN ToolResult(FALSE, "Unknown tool")
    ELSE IF ~valid THEN ToolResult(FALSE, "Invalid parameters")
    ELSE IF ~ok THEN ToolResult(FALSE, "tool error")
    ELSE ToolResult(TRUE, "")

Invokes(name, valid) == name \in ToolNames /\ valid

RunsAfter(name, valid) ==
    IF Invokes(name, valid)
    THEN tool_runs (+) SetToBag({ToolRun(name, "executor", NoId)})
    ELSE tool_runs

execute(name, valid, ok) ==
    /\ tool_result.n < MaxToolCalls
    /\ tool_runs' = RunsAfter(name, valid)
    /\ tool_result' = ToolCallRecord("execute", name, FALSE, valid,
                                     ExecuteOutcome(name, valid, ok), FALSE,
                                     tool_result.n + 1)

\* a gate that never holds a call back
execute_if_allowed_ungated(name, allow_write, valid, ok) ==
    /\ tool_result.n < MaxToolCalls
    /\ tool_runs' = RunsAfter(name, valid)
    /\ tool_result' = ToolCallRecord("execute_if_allowed", name, allow_write,
                                     valid, ExecuteOutcome(name, valid, ok),
                                     FALSE, tool_result.n + 1)

\* execute_if_allowed(name, params, token, allow_write): no result and no
\* execution for a WRITE/DESTRUCTIVE tool without allow_write, execute otherwise
execute_if_allowed(name, allow_write, valid, ok) ==
    /\ tool_result.n < MaxToolCalls
    /\ IF get_permission(name) \in {WRITE, DESTRUCTIVE} /\ ~allow_write
       THEN /\ tool_runs' = tool_runs
            /\ tool_result' = ToolCallRecord("execute_if_allowed", name,
                                             allow_write, valid, NoResult,
                                             FALSE, tool_result.n + 1)
       ELSE /\ tool_runs' = RunsAfter(name, valid)
            /\ tool_result' = ToolCallRecord("execute_if_allowed", name,
                                             allow_write, valid,
                                             ExecuteOutcome(name, valid, ok),
                                             FALSE, tool_result.n + 1)

\* requires_approval(name) asked by a caller
AskRequiresApproval(name) ==
    /\ tool_result.n < MaxToolCalls
    /\ tool_runs' = tool_runs
    /\ tool_result' = ToolCallRecord("requires_approval", name, FALSE, FALSE,
                                     NoResult, requires_approval(name),
                                     tool_result.n + 1)

execFrame ==
    UNCHANGED <<messages, pending_approvals, now, pc, depth, calls, events,
                next_approval, response, view, json_call, llmVars,
                _sessions, sessions_made, session_call, extVars>>

NextExecutor ==
    \/ \E name \in ExecNames, valid, ok \in BOOLEAN :
            execute(name, valid, ok) /\ execFrame
    \/ \E name \in ExecNames, allow_write, valid, ok \in BOOLEAN :
            execute_if_allowed(name, allow_write, valid, ok) /\ execFrame
    \/ \E name \in ExecNames : AskRequiresApproval(name) /\ execFrame

-----------------------------------------------------------------------------
(* The session store (chat/session.py): get_session, clear_session *)

\* sha256(token).hexdigest()[:16]; the tokens of the model have distinct keys
session_key(token) == [t1 |-> "k1", t2 |-> "k2"][token]

\* d without the entry of key k
DictWithout(d, k) == [x \in DOMAIN d \ {k} |-> d[x]]

\* d with the entry k -> v added or replaced
DictWith(d, k, v) == [x \in DOMAIN d \cup {k} |-> IF x = k THEN v ELSE d[x]]

\* the store after get_session(token): a new ChatSession when the key is absent
SessionsAfterGet(sessions, made, token) ==
    IF session_key(token) \in DOMAIN sessions THEN sessions
    ELSE DictWith(sessions, session_key(token), ChatSession(made + 1))

\* the session get_session(token) returns
SessionFor(sessions, made, token) ==
    SessionsAfterGet(sessions, made, token)[session_key(token)]

get_session(token) ==
    /\ session_call.n < MaxSessionCalls
    /\ _sessions' = SessionsAfterGet(_sessions, sessions_made, token)
    /\ sessions_made' = IF session_key(token) \in DOMAIN _sessions
                        THEN sessions_made ELSE sessions_made + 1
    /\ session_call' = SessionCall("get_session", token,
                                   SessionFor(_sessions, sessions_made, token),
                                   FALSE, session_call.n + 1)

\* a clear_session that reports success and keeps the entry
clear_session_keeps(token) ==
    /\ session_call.n < MaxSessionCalls
    /\ _sessions' = _sessions
    /\ sessions_made' = sessions_made
    /\ session_call' = SessionCall("clear_session", token, NoSession,
                                   session_key(token) \in DOMAIN _sessions,
                                   session_call.n + 1)

clear_session(token) ==
    /\ session_call.n < MaxSessionCalls
    /\ _sessions' = IF session_key(token) \in DOMAIN _sessions
                    THEN DictWithout(_sessions, session_key(token))
                    ELSE _sessions
    /\ sessions_made' = sessions_made
    /\ session_call' = SessionCall("clear_session", token, NoSession,
                                   session_key(token) \in DOMAIN _sessions,
                                   session_call.n + 1)

\* a handler that holds the stored session of token appends a message to it
SessionAddMessage(token) ==
    LET key == session_key(token)
    IN  /\ key \in DOMAIN _sessions
        /\ Len(_sessions[key].messages) < MaxSessionMsgs
        /\ _sessions' = [_sessions EXCEPT
                            ![key].messages = Append(@, UserMessage)]
        /\ UNCHANGED <<sessions_made, session_call>>

\* a handler that holds the stored session of token adds a pending approval
SessionAddApproval(token) ==
    LET key == session_key(token)
    IN  /\ key \in DOMAIN _sessions
        /\ _sessions[key].pending_approvals = {}
        /\ _sessions' = [_sessions EXCEPT ![key].pending_approvals = {1}]
        /\ UNCHANGED <<sessions_made, session_call>>

storeFrame == UNCHANGED <<chatVars, json_call, llmVars, tool_result, extVars>>

NextSessions ==
    \/ \E token \in Tokens : get_session(token) /\ storeFrame
    \/ \E token \in Tokens : clear_session(token) /\ storeFrame
    \/ \E token \in Tokens : SessionAddMessage(token) /\ storeFrame
    \/ \E token \in Tokens : SessionAddApproval(token) /\ storeFrame

-----------------------------------------------------------------------------
(* ChatOrchestrator.process_message: the turn loop *)

\* the tool-call lists a provider response may carry
ToolCalls == {ToolCall(id, name) : id \in CallIds, name \in ToolNames}

\* the calls of one response carry pairwise distinct ids; ids may repeat
\* from one response to the next
ToolCallLists ==
    {cs \in UNION {[1..n -> ToolCalls] : n \in 1..MaxCalls} :
        \A i, j \in DOMAIN cs : cs[i].id = cs[j].id => i = j}

Gated(cs) == {k \in DOMAIN cs : requires_approval(cs[k].name)}

\* a loop bound that is off by one
within_depth_inclusive(d) == d <= MAX_TOOL_RECURSION_DEPTH

\* 2. the loop makes another round trip while fewer than N were made
within_depth(d) == d < MAX_TOOL_RECURSION_DEPTH

\* 1. append the user message and enter the loop
StartTurn ==
    /\ pc \in {"idle", "done"}
    /\ Len(messages) < MaxMsgs
    /\ messages' = Append(messages, UserMessage)
    /\ pc' = "await"
    /\ depth' = 0
    /\ calls' = <<>>
    /\ events' = <<>>
    /\ UNCHANGED <<pending_approvals, now, next_approval, tool_runs, response, view, libVars>>

\* 2b. the provider answers with text only
ProviderText ==
    /\ pc = "await"
    /\ within_depth(depth)
    /\ Len(messages) < MaxMsgs
    /\ depth' = depth + 1
    /\ messages' = Append(messages, AssistantMessage(<<>>))
    /\ events' = events \o <<Event("text", "", NoId), Done>>
    /\ pc' = "done"
    /\ UNCHANGED <<pending_approvals, now, calls, next_approval, tool_runs,
                   response, view, libVars>>

\* 2c. the provider answers with tool calls: one assistant message records them
ProviderToolCalls(cs) ==
    /\ pc = "await"
    /\ within_depth(depth)
    /\ Len(messages) + 1 + Len(cs) <= MaxMsgs
    /\ next_approval + Cardinality(Gated(cs)) <= MaxApprovals
    /\ depth' = depth + 1
    /\ messages' = Append(messages, AssistantMessage(cs))
    /\ calls' = cs
    /\ pc' = "tools"
    /\ UNCHANGED <<pending_approvals, now, events, next_approval, tool_runs,
                   response, view, libVars>>

\* a provider failure that is reported and leaves the loop running
ProviderFailsGoesOn ==
    /\ pc = "await"
    /\ within_depth(depth)
    /\ depth' = depth + 1
    /\ events' = Append(events, ErrorEvent("provider"))
    /\ pc' = "await"
    /\ UNCHANGED <<messages, pending_approvals, now, calls, next_approval,
                   tool_runs, response, view, libVars>>

\* the provider call raises: error, then done
ProviderFails ==
    /\ pc = "await"
    /\ within_depth(depth)
    /\ depth' = depth + 1
    /\ events' = events \o <<ErrorEvent("provider"), Done>>
    /\ pc' = "done"
    /\ UNCHANGED <<messages, pending_approvals, now, calls, next_approval,
                   tool_runs, response, view, libVars>>

\* 3. the loop has made its N round trips and the model still asked for tools
RecursionLimit ==
    /\ pc = "await"
    /\ ~within_depth(depth)
    /\ events' = events \o <<ErrorEvent("recursion_limit"), Done>>
    /\ pc' = "done"
    /\ UNCHANGED <<messages, pending_approvals, now, depth, calls,
                   next_approval, tool_runs, response, view, libVars>>

\* 2c, READ: execute now, store the serialised ToolResult
ExecuteNow(call, ok) ==
    /\ tool_runs' = tool_runs (+) SetToBag({ToolRun(call.name, "turn", NoId)})
    /\ messages' = Append(messages, ToolMessage(call.id, ToolResultContent(call.name, ok)))
    /\ events' = events \o <<Event("tool_start", "", NoId),
                             Event("tool_result", "", NoId)>>
    /\ UNCHANGED <<pending_approvals, next_approval>>

\* 2c, WRITE/DESTRUCTIVE: do not execute, create the approval and the placeholder
DeferToApproval(call) ==
    LET id == next_approval + 1
    IN  /\ next_approval' = id
        /\ pending_approvals' =
              add_pending_approval(pending_approvals, PendingApproval(id, call.name, now))
        /\ messages' = Append(messages, ToolMessage(call.id, Placeholder(id)))
        /\ events' = events \o <<Event("tool_start", "", NoId),
                                 Event("approval_required", "", id)>>
        /\ UNCHANGED tool_runs

\* a round that stops at the first tool that fails
DispatchCallAbortsOnFailure ==
    /\ pc = "tools"
    /\ calls # <<>>
    /\ LET call == Head(calls)
       IN  IF requires_approval(call.name)
           THEN /\ DeferToApproval(call)
                /\ calls' = Tail(calls)
           ELSE \E ok \in BOOLEAN :
                    /\ ExecuteNow(call, ok)
                    /\ calls' = IF ok THEN Tail(calls) ELSE <<>>
    /\ pc' = IF calls' = <<>> THEN "await" ELSE "tools"
    /\ UNCHANGED <<now, depth, response, view, libVars>>

DispatchCall ==
    /\ pc = "tools"
    /\ calls # <<>>
    /\ LET call == Head(calls)
       IN  IF requires_approval(call.name)
           THEN DeferToApproval(call)
           ELSE \E ok \in BOOLEAN : ExecuteNow(call, ok)
    /\ calls' = Tail(calls)
    /\ pc' = IF Tail(calls) = <<>> THEN "await" ELSE "tools"
    /\ UNCHANGED <<now, depth, response, view, libVars>>

\* 4. an exception inside the loop is caught once: error, then done
OrchestratorException ==
    /\ pc \in {"await", "tools"}
    /\ events' = events \o <<ErrorEvent("exception"), Done>>
    /\ pc' = "done"
    /\ calls' = <<>>
    /\ UNCHANGED <<messages, pending_approvals, now, depth, next_approval,
                   tool_runs, response, view, libVars>>

-----------------------------------------------------------------------------
(* server/api/chat.py *)

\* an except branch that reports the error and forgets the closing done
GeneratorFailureNoDone ==
    /\ pc \in {"await", "tools"}
    /\ events' = events \o <<ErrorEvent("event generation")>>
    /\ pc' = "done"
    /\ calls' = <<>>
    /\ UNCHANGED <<messages, pending_approvals, now, depth, next_approval,
                   tool_runs, response, view, libVars>>

\* _event_generator: an exception while an event is forwarded ends the stream
\* with error and done; the orchestrator's generator is not resumed
GeneratorFailure ==
    /\ pc \in {"await", "tools"}
    /\ events' = events \o <<ErrorEvent("event generation"), Done>>
    /\ pc' = "done"
    /\ calls' = <<>>
    /\ UNCHANGED <<messages, pending_approvals, now, depth, next_approval,
                   tool_runs, response, view, libVars>>

ApprovalIds == 1..MaxApprovals

Response(op, id, status, evicted, approval) ==
    [op |-> op, id |-> id, status |-> status, serial |-> 1 - response.serial,
     evicted |-> evicted, approval |-> approval, listed |-> {}, removed |-> 0]

\* get_pending_approval evicts what it finds expired
Evicts(approvals, id, t) == id \in DOMAIN approvals /\ is_expired(approvals[id], t)

\* a ValidationError branch that answers 400 and keeps the approval
ApproveFoundKeepsInvalid(id, outcome) ==
    LET approval == pending_approvals[id]
        tool_call_id == get_tool_call_id_for_approval(messages, id)
    IN  IF outcome = "unregistered"
        THEN /\ pending_approvals' = remove_approval(pending_approvals, id)
             /\ response' = Response("approve", id, 500, FALSE, NoApproval)
             /\ UNCHANGED <<messages, tool_runs>>
        ELSE IF outcome = "invalid"
        THEN /\ response' = Response("approve", id, 400, FALSE, NoApproval)
             /\ UNCHANGED <<messages, tool_runs, pending_approvals>>
        ELSE /\ tool_runs' = tool_runs (+)
                    SetToBag({ToolRun(approval.tool_name, "approve", id)})
             /\ IF outcome = "raised"
                THEN /\ response' = Response("approve", id, 500, FALSE, NoApproval)
                     /\ UNCHANGED messages
                ELSE /\ messages' =
                          IF tool_call_id # NoId
                          THEN update_tool_message(messages, tool_call_id,
                                   ResultMessage(approval.tool_name, outcome = "ok"))
                          ELSE messages
                     /\ response' = Response("approve", id, 200, FALSE, NoApproval)
             /\ pending_approvals' = remove_approval(pending_approvals, id)

\* an unknown-tool branch that answers 500 and keeps the approval
ApproveFoundKeepsUnregistered(id, outcome) ==
    LET approval == pending_approvals[id]
        tool_call_id == get_tool_call_id_for_approval(messages, id)
    IN  IF outcome = "unregistered"
        THEN /\ response' = Response("approve", id, 500, FALSE, NoApproval)
             /\ UNCHANGED <<messages, tool_runs, pending_approvals>>
        ELSE IF outcome = "invalid"
        THEN /\ pending_approvals' = remove_approval(pending_approvals, id)
             /\ response' = Response("approve", id, 400, FALSE, NoApproval)
             /\ UNCHANGED <<messages, tool_runs>>
        ELSE /\ tool_runs' = tool_runs (+)
                    SetToBag({ToolRun(approval.tool_name, "approve", id)})
             /\ IF outcome = "raised"
                THEN /\ response' = Response("approve", id, 500, FALSE, NoApproval)
                     /\ UNCHANGED messages
                ELSE /\ messages' =
                          IF tool_call_id # NoId
                          THEN update_tool_message(messages, tool_call_id,
                                   ResultMessage(approval.tool_name, outcome = "ok"))
                          ELSE messages
                     /\ response' = Response("approve", id, 200, FALSE, NoApproval)
             /\ pending_approvals' = remove_approval(pending_approvals, id)

\* approve_action after the lookup succeeded
ApproveFound(id, outcome) ==
    LET approval == pending_approvals[id]
        tool_call_id == get_tool_call_id_for_approval(messages, id)
    IN  IF outcome = "unregistered"
        THEN \* _tools_by_name.get(approval.tool_name) is None
             /\ pending_approvals' = remove_approval(pending_approvals, id)
             /\ response' = Response("approve", id, 500, FALSE, NoApproval)
             /\ UNCHANGED <<messages, tool_runs>>
        ELSE IF outcome = "invalid"
        THEN \* tool.Params(**final_params) raises ValidationError
             /\ pending_approvals' = remove_approval(pending_approvals, id)
             /\ response' = Response("approve", id, 400, FALSE, NoApproval)
             /\ UNCHANGED <<messages, tool_runs>>
        ELSE /\ tool_runs' = tool_runs (+)
                    SetToBag({ToolRun(approval.tool_name, "approve", id)})
             /\ IF outcome = "raised"
                THEN /\ response' = Response("approve", id, 500, FALSE, NoApproval)
                     /\ UNCHANGED messages
                ELSE /\ messages' =
                          IF tool_call_id # NoId
                          THEN update_tool_message(messages, tool_call_id,
                                   ResultMessage(approval.tool_name, outcome = "ok"))
                          ELSE messages
                     /\ response' = Response("approve", id, 200, FALSE, NoApproval)
             /\ pending_approvals' = remove_approval(pending_approvals, id)

approve_action(id, outcome) ==
    /\ IF Found(pending_approvals, id, now)
       THEN ApproveFound(id, outcome)
       ELSE /\ pending_approvals' = AfterLookup(pending_approvals, id, now)
            /\ response' = Response("approve", id, 404, Evicts(pending_approvals, id, now), NoApproval)
            /\ UNCHANGED <<messages, tool_runs>>
    /\ UNCHANGED <<now, next_approval, view, libVars>>
    /\ UNCHANGED turnVars

\* a reject that also rewrites the placeholder of the approval
reject_action_rewrites(id) ==
    LET tool_call_id == get_tool_call_id_for_approval(messages, id)
    IN  /\ IF Found(pending_approvals, id, now)
           THEN /\ pending_approvals' = remove_approval(pending_approvals, id)
                /\ response' = Response("reject", id, 200, FALSE, NoApproval)
                /\ messages' =
                      IF tool_call_id # NoId
                      THEN update_tool_message(messages, tool_call_id,
                               ResultMessage(pending_approvals[id].tool_name, FALSE))
                      ELSE messages
           ELSE /\ pending_approvals' = AfterLookup(pending_approvals, id, now)
                /\ response' = Response("reject", id, 404,
                                        Evicts(pending_approvals, id, now), NoApproval)
                /\ UNCHANGED messages
        /\ UNCHANGED <<now, next_approval, tool_runs, view, libVars>>
        /\ UNCHANGED turnVars

reject_action(id) ==
    /\ IF Found(pending_approvals, id, now)
       THEN /\ pending_approvals' = remove_approval(pending_approvals, id)
            /\ response' = Response("reject", id, 200, FALSE, NoApproval)
       ELSE /\ pending_approvals' = AfterLookup(pending_approvals, id, now)
            /\ response' = Response("reject", id, 404, Evicts(pending_approvals, id, now), NoApproval)
    /\ UNCHANGED <<messages, now, next_approval, tool_runs, view, libVars>>
    /\ UNCHANGED turnVars

\* GET /chat/pending: session.list_pending_approvals sweeps, then lists
list_pending_approvals ==
    /\ pending_approvals' = cleanup_expired(pending_approvals, now)
    /\ response' = Response("list", NoId, 200, FALSE, NoApproval)
    /\ UNCHANGED <<messages, now, next_approval, tool_runs, view, libVars>>
    /\ UNCHANGED turnVars

\* time passes; the clock is read only through is_expired of a stored approval
Tick ==
    /\ now < MaxTime
    /\ pending_approvals # <<>>
    /\ now' = now + 1
    /\ UNCHANGED <<messages, pending_approvals, next_approval, tool_runs, response, view, libVars>>
    /\ UNCHANGED turnVars

\* what happens once the approval is found: its tool is not registered, the
\* merged parameters fail validation, or the tool runs and succeeds, returns a failed ToolResult, or raises
Outcomes == {"unregistered", "invalid", "ok", "failed", "raised"}

Next ==
    \/ StartTurn
    \/ ProviderText
    \/ \E cs \in ToolCallLists : ProviderToolCalls(cs)
    \/ ProviderFails
    \/ RecursionLimit
    \/ DispatchCall
    \/ OrchestratorException
    \/ GeneratorFailure
    \/ \E id \in ApprovalIds, outcome \in Outcomes : approve_action(id, outcome)
    \/ \E id \in ApprovalIds : reject_action(id)
    \/ list_pending_approvals
    \/ Tick

Spec == Init /\ [][Next]_vars


-----------------------------------------------------------------------------
(* Properties of the server specification *)

Gating == {WRITE, DESTRUCTIVE}

Last(seq) == seq[Len(seq)]

\* tool effects run by approve requests for this approval
ApproveRuns(runs, id) ==
    LET of == {r \in BagToSet(runs) : r.by = "approve" /\ r.approval = id}
    IN  IF of = {} THEN 0 ELSE CopiesIn(CHOOSE r \in of : TRUE, runs)

\* this step answers an approve request for id
ApproveStep(id) ==
    /\ response' # response
    /\ response'.op = "approve"
    /\ response'.id = id

\* this step of a turn dispatches a call whose permission is WRITE or DESTRUCTIVE
GatedDispatch ==
    /\ pc = "tools"
    /\ pc' \in {"await", "tools"}
    /\ calls # <<>>
    /\ calls' = Tail(calls)
    /\ ToolPermission[Head(calls).name] \in Gating

DefersToApproval ==
    LET call == Head(calls)
        id == next_approval + 1
    IN  /\ tool_runs' = tool_runs
        /\ next_approval' = id
        /\ DOMAIN pending_approvals' = DOMAIN pending_approvals \cup {id}
        /\ id \notin DOMAIN pending_approvals
        /\ pending_approvals'[id].tool_name = call.name
        /\ Len(messages') = Len(messages) + 1
        /\ SubSeq(messages', 1, Len(messages)) = messages
        /\ Last(messages').role = "tool"
        /\ Last(messages').tool_call_id = call.id
        /\ Last(messages').content.approval_id = id
        /\ Len(events') = Len(events) + 2
        /\ Last(events') = Event("approval_required", "", id)

\* C1: a turn never executes a tool call whose permission is WRITE or
\* DESTRUCTIVE: every tool effect run by a turn is a READ tool's, every
\* dispatch of a WRITE/DESTRUCTIVE call runs nothing and creates exactly one
\* PendingApproval, appends the tool-role placeholder naming it and emits
\* approval_required, and every effect of such a tool is run by an approve
\* request for an approval a turn created earlier.
C1_TurnNeverExecutesWrites ==
    /\ [](\A r \in BagToSet(tool_runs) :
            /\ r.by = "turn" => ToolPermission[r.tool] = READ
            /\ r.by = "approve" =>
                  r.approval \in 1..next_approval /\ ToolPermission[r.tool] \in Gating)
    /\ [][GatedDispatch => DefersToApproval]_vars

C1_Witness ==
    /\ pc = "done"
    /\ \E i \in DOMAIN events : events[i].type = "approval_required"
    /\ \E i \in DOMAIN messages :
          messages[i].role = "tool" /\ messages[i].content.approval_id # NoId
    /\ pending_approvals # <<>>
    /\ BagToSet(tool_runs) = {}

\* C2: the event stream of a finished turn ends with done, done occurs in a
\* stream only as its last event, and only once the turn has ended; so each
\* stream carries exactly one done and nothing after it, on every path.
C2_StreamEndsWithOneDone ==
    /\ pc = "done" => events # <<>> /\ Last(events) = Done
    /\ \A i \in DOMAIN events :
          events[i].type = "done" => i = Len(events) /\ pc = "done"

C2_Witness ==
    /\ pc = "done"
    /\ Len(events) >= 4
    /\ events[Len(events) - 1] = ErrorEvent("event generation")
    /\ Last(events) = Done

\* C3: every tool-role message of the stored history has an earlier
\* assistant message whose tool-call ids include its tool_call_id.
C3_ToolMessagesPaired ==
    \A i \in DOMAIN messages :
        messages[i].role = "tool" =>
            \E j \in 1..(i - 1) :
                /\ messages[j].role = "assistant"
                /\ messages[i].tool_call_id \in CallIdsOf(messages[j])

C3_Witness ==
    /\ \E r \in BagToSet(tool_runs) : r.by = "approve"
    /\ response.op = "reject" /\ response.status = 200
    /\ \E i \in DOMAIN messages :
          /\ messages[i].role = "tool"
          /\ messages[i].content \in {ResultMessage(t, ok) : t \in ToolNames, ok \in BOOLEAN}
    /\ \E i \in DOMAIN messages :
          messages[i].role = "tool" /\ messages[i].content.approval_id # NoId

\* assistant messages with tool calls stored since the last user message
ToolRounds ==
    LET users == {i \in DOMAIN messages : messages[i].role = "user"}
        start == CHOOSE i \in users : \A j \in users : j <= i
    IN  Cardinality({i \in DOMAIN messages :
                        /\ i > start
                        /\ messages[i].role = "assistant"
                        /\ messages[i].tool_calls # <<>>})

RecursionError == ErrorEvent("recursion_limit")

\* C4: no turn makes more than N = MAX_TOOL_RECURSION_DEPTH provider round
\* trips; the recursion-limit error is emitted only after exactly N of them;
\* and a turn whose N round trips all returned tool calls and that met no
\* exception has ended with the recursion-limit error.
C4_RecursionLimit ==
    /\ depth <= MAX_TOOL_RECURSION_DEPTH
    /\ \A i \in DOMAIN events :
          events[i] = RecursionError => depth = MAX_TOOL_RECURSION_DEPTH /\ pc = "done"
    /\ (/\ pc = "done"
        /\ ToolRounds = MAX_TOOL_RECURSION_DEPTH
        /\ \A i \in DOMAIN events : events[i].type = "error" => events[i] = RecursionError)
       => \E i \in DOMAIN events : events[i] = RecursionError

C4_Witness ==
    /\ pc = "done"
    /\ depth = MAX_TOOL_RECURSION_DEPTH
    /\ ToolRounds = MAX_TOOL_RECURSION_DEPTH
    /\ events[Len(events) - 1] = RecursionError

\* the approval is stored and its expiry time has not passed
Live(id) ==
    /\ id \in DOMAIN pending_approvals
    /\ now <= pending_approvals[id].expires_at

\* C6: an approve request for an approval that is not stored, or whose
\* expiry time has passed, answers 404 and runs no tool, whether the expired
\* approval is still stored or a sweep has removed it.
C6_ExpiredNeverExecuted ==
    [][\A id \in ApprovalIds :
          ~Live(id) =>
              /\ ApproveRuns(tool_runs', id) = ApproveRuns(tool_runs, id)
              /\ ApproveStep(id) => response'.status = 404]_vars

C6_Witness ==
    /\ response.op = "approve"
    /\ response.status = 404
    /\ response.evicted
    /\ ApproveRuns(tool_runs, response.id) = 0

\* C7: every approve request leaves its approval removed, whatever its
\* outcome; a removed approval never comes back; so a second approve request
\* for the same id answers 404 and runs nothing, and no approval's tool is
\* run twice by approve requests made in sequence.
C7_SecondApproveNotFound ==
    /\ [][\A id \in ApprovalIds :
            ApproveStep(id) => id \notin DOMAIN pending_approvals']_vars
    /\ [][\A id \in 1..next_approval :
            id \notin DOMAIN pending_approvals =>
                /\ id \notin DOMAIN pending_approvals'
                /\ ApproveRuns(tool_runs', id) = ApproveRuns(tool_runs, id)
                /\ ApproveStep(id) => response'.status = 404]_vars
    /\ [](\A id \in ApprovalIds : ApproveRuns(tool_runs, id) <= 1)

C7_Witness ==
    /\ response.op = "approve"
    /\ response.status = 404
    /\ ~response.evicted
    /\ ApproveRuns(tool_runs, response.id) = 1

\* the stored tool-role messages whose content names this approval
PlaceholdersOf(id) ==
    {i \in DOMAIN messages :
        messages[i].role = "tool" /\ messages[i].content.approval_id = id}

\* C29: an approve request whose lookup finds the approval answers 200, 400
\* or 500 and leaves the approval removed, whichever way it ends (tool
\* succeeded, tool failed, parameters invalid, exception, tool not
\* registered); when it answers 400, for invalid parameters, no tool has run
\* and every stored message, the placeholder included, is as it was.
C29_FoundApprovalAlwaysRemoved ==
    [][\A id \in ApprovalIds :
          (ApproveStep(id) /\ Found(pending_approvals, id, now)) =>
              /\ response'.status \in {200, 400, 500}
              /\ id \notin DOMAIN pending_approvals'
              /\ response'.status = 400 =>
                    /\ tool_runs' = tool_runs
                    /\ messages' = messages]_vars

C29_Witness ==
    /\ response.op = "approve"
    /\ response.status = 400
    /\ response.id \notin DOMAIN pending_approvals
    /\ ApproveRuns(tool_runs, response.id) = 0
    /\ \E i \in PlaceholdersOf(response.id) :
          messages[i].content = Placeholder(response.id)

\* C9: when an approve request has executed the tool and got a result, the
\* placeholder naming the approval holds the real result afterwards and every
\* other stored message is unchanged.
C9_PlaceholderOverwritten ==
    [][\A id \in ApprovalIds :
          (ApproveStep(id) /\ response'.status = 200) =>
              /\ Len(messages') = Len(messages)
              /\ \A i \in DOMAIN messages :
                    IF i \in PlaceholdersOf(id)
                    THEN \E ok \in BOOLEAN :
                            messages'[i] =
                               [messages[i] EXCEPT !.content =
                                   ResultMessage(pending_approvals[id].tool_name, ok)]
                    ELSE messages'[i] = messages[i]]_vars

\* this step answers a reject request for id
RejectStep(id) ==
    /\ response' # response
    /\ response'.op = "reject"
    /\ response'.id = id

\* C11: a reject request for a stored, unexpired approval answers success,
\* removes exactly that approval, runs no tool and leaves every stored
\* message, the placeholder included, unchanged; for an absent or expired
\* approval it answers 404, runs no tool and changes no message.
C11_RejectFrame ==
    [][\A id \in ApprovalIds :
          RejectStep(id) =>
              /\ messages' = messages
              /\ tool_runs' = tool_runs
              /\ IF Live(id)
                 THEN /\ response'.status = 200
                      /\ pending_approvals' = Without(pending_approvals, {id})
                 ELSE response'.status = 404]_vars

C11_Witness ==
    /\ response.op = "reject"
    /\ response.status = 200
    /\ response.id \notin DOMAIN pending_approvals
    /\ PlaceholdersOf(response.id) # {}
    /\ pending_approvals # <<>>
    /\ ApproveRuns(tool_runs, response.id) = 0

\* the position of the last assistant message that carries tool calls, 0
\* when there is none
LastRound ==
    LET rounds == {i \in DOMAIN messages :
                      messages[i].role = "assistant" /\ messages[i].tool_calls # <<>>}
    IN  IF rounds = {} THEN 0 ELSE CHOOSE i \in rounds : \A j \in rounds : j <= i

\* the step executes a READ call of the round
ExecuteStep ==
    \E name \in ToolNames :
        tool_runs' = tool_runs (+) SetToBag({ToolRun(name, "turn", NoId)})

\* C22: a tool that fails while it executes yields a failed ToolResult stored
\* as the tool-role message of its own call, and the round goes on: the
\* calls behind it stay queued, and when the round has been dispatched every
\* tool call of it has its own tool-role message, in the order of the calls
C22_FailureKeepsSiblings ==
    /\ [][ExecuteStep =>
            /\ calls # <<>>
            /\ calls' = Tail(calls)
            /\ Len(messages') = Len(messages) + 1
            /\ messages'[Len(messages')].role = "tool"
            /\ messages'[Len(messages')].tool_call_id = Head(calls).id
            /\ messages'[Len(messages')].content.kind = "json"
            /\ pc' = IF Tail(calls) = <<>> THEN "await" ELSE "tools"]_vars
    /\ []((pc = "await" /\ depth > 0) =>
            /\ LastRound > 0
            /\ LET cs == messages[LastRound].tool_calls
               IN  /\ Len(messages) = LastRound + Len(cs)
                   /\ \A k \in DOMAIN cs :
                        /\ messages[LastRound + k].role = "tool"
                        /\ messages[LastRound + k].tool_call_id = cs[k].id)

\* a round of two calls is over: the first failed, the second has its result
C22_Witness ==
    /\ pc = "await"
    /\ depth > 0
    /\ LastRound > 0
    /\ Len(messages[LastRound].tool_calls) = 2
    /\ Len(messages) = LastRound + 2
    /\ messages[LastRound + 1].content = ToolResultContent("list_items", FALSE)
    /\ messages[LastRound + 2].content = ToolResultContent("list_items", TRUE)

EventsOfType(type) == {i \in DOMAIN events : events[i].type = type}

\* C23: when the provider call raises during a turn, the stream of the turn
\* carries exactly one error event, the one with the provider's failure
\* message, carries no text event, and ends with done
C23_ProviderFailureEndsTurn ==
    (\E i \in DOMAIN events : events[i] = ErrorEvent("provider")) =>
        /\ Cardinality(EventsOfType("error")) = 1
        /\ EventsOfType("text") = {}
        /\ events[Len(events)] = Done
        /\ pc = "done"

\* the provider raised on the second round trip, after a tool had run
C23_Witness ==
    /\ depth = 2
    /\ EventsOfType("tool_result") # {}
    /\ Len(events) >= 2
    /\ events[Len(events) - 1] = ErrorEvent("provider")
    /\ events[Len(events)] = Done

-----------------------------------------------------------------------------
(* json_completion driven directly *)

NextJson ==
    \/ \E expected_keys \in ExpectedKeys, admitted \in BOOLEAN :
          JsonCompletion(expected_keys, admitted)
    \/ \E completion \in Completions, admitted \in BOOLEAN :
          FirstCompletion(completion, admitted)
    \/ \E completion \in Completions : RepairCompletion(completion)

SpecJson == Init /\ [][NextJson]_vars

FirstInvalid ==
    /\ json_call.first # NoContent
    /\ _parse_json_response(json_call.first, json_call.expected_keys).error # ""

Repairs == Cardinality({i \in DOMAIN json_call.requests : json_call.requests[i] = "repair"})

Answer == IF Repairs = 1 THEN json_call.repaired ELSE json_call.first

\* C13: a value is returned only when it is the JSON object parsed from the
\* last response and holds every expected key; a repair response is accepted
\* exactly when the validation rule of the first response accepts it; and a
\* repair response that is still invalid ends the call with JSONRepairError.
C13_ReturnsOnlyValidObjects ==
    /\ json_call.outcome = "value" =>
          /\ json_call.at = "finished"
          /\ json_call.value.object
          /\ json_call.expected_keys \subseteq json_call.value.keys
          /\ Answer.body = "object" /\ Answer.fence # "inline"
          /\ json_call.value.keys = Answer.keys
    /\ (json_call.at = "finished" /\ json_call.repaired # NoContent) =>
          IF _parse_json_response(json_call.repaired, json_call.expected_keys).error = ""
          THEN json_call.outcome = "value"
          ELSE json_call.outcome = "JSONRepairError"
    /\ json_call.outcome = "JSONRepairError" => json_call.at = "finished" /\ Repairs = 1

C13_Witness ==
    /\ json_call.outcome = "value"
    /\ json_call.expected_keys = {"items"}
    /\ json_call.first = RawContent("inline", "object", {"items"})
    /\ json_call.repaired = RawContent("block", "object", {"items", "name"})
    /\ json_call.value.keys = {"items", "name"}


-----------------------------------------------------------------------------
(* The repair request of json_completion *)

SpecRepair == Init /\ [][NextRepair]_vars

\* C26: the malformed text carried by the repair request is bounded: for a
\* first response of any length, the copy embedded in the repair prompt has
\* at most MAX_REPAIR_CONTEXT_LENGTH characters, and no message of the
\* request carries more of the first response than that
C26_RepairTextBounded ==
    repair_request.at = "built" =>
        /\ Len(repair_request.embedded) <= MAX_REPAIR_CONTEXT_LENGTH
        /\ Len(repair_request.assistant) <= MAX_REPAIR_CONTEXT_LENGTH

-----------------------------------------------------------------------------
(* The profile store, the Router and the LLM client driven directly *)

SpecLLM == InitLLM /\ [][NextLLM]_vars

\* C14: a LLMClient.complete call whose PRIMARY request failed while a
\* FALLBACK profile was configured has sent the request to the FALLBACK
\* deployment as well; it raises only after that second request.
C14_FallbackOnPrimaryFailure ==
    (llm_call.outcome = "raises" /\ llm_call.fallback # NoModel) =>
        /\ Len(llm_call.requests) = 2
        /\ llm_call.requests[2] = llm_call.fallback

\* C15: the saved profile list is empty, or holds exactly one PRIMARY profile
\* and at most one FALLBACK profile.
C15_SavedProfilesConstrained ==
    validate_profile_constraints(settings_file.llm_profiles)

SavedModels(status) ==
    {settings_file.llm_profiles[i].model : i \in WithStatus(settings_file.llm_profiles, status)}

\* C16: a Router that is installed was built from the saved profiles (its
\* primary deployment is a saved PRIMARY profile's model, or the environment's
\* model when no profile is PRIMARY; its fallback deployment is a saved
\* FALLBACK profile's model, or absent when there is none); no Router built
\* before a change of the saved settings is installed after it; and a Router
\* is never installed without a model.
C16_RouterRebuiltAfterSave ==
    /\ [](_router.built =>
            /\ _router.primary \in
                  (IF SavedModels(PRIMARY) = {} THEN {env_model} ELSE SavedModels(PRIMARY))
            /\ _router.fallback \in
                  (IF SavedModels(FALLBACK) = {} THEN {NoModel} ELSE SavedModels(FALLBACK))
            /\ _router.primary # NoModel)
    /\ [][settings_file' # settings_file => (~_router'.built \/ ~_router.built)]_vars

-----------------------------------------------------------------------------
(* ToolExecutor driven directly *)

SpecExecutor == Init /\ [][NextExecutor]_vars

\* the step is a call of op on the executor
ExecutorStep(op) == tool_result'.n = tool_result.n + 1 /\ tool_result'.op = op

\* the tool ran once more in this step
RanOnce(name) ==
    tool_runs' = tool_runs (+) SetToBag({ToolRun(name, "executor", NoId)})

\* C17: execute_if_allowed returns no result and invokes nothing for a WRITE
\* or DESTRUCTIVE tool when allow_write is false; it executes a READ tool for
\* either value of allow_write and a WRITE or DESTRUCTIVE tool when
\* allow_write is true: it returns a result, and the tool runs once when the
\* parameters are valid
C17_GateOnAllowWrite ==
    [][ExecutorStep("execute_if_allowed") =>
        LET call == tool_result'
            permission == get_permission(call.name)
        IN  /\ (permission \in {WRITE, DESTRUCTIVE} /\ ~call.allow_write) =>
                    /\ call.result = NoResult
                    /\ tool_runs' = tool_runs
            /\ (permission = READ \/
                    (permission \in {WRITE, DESTRUCTIVE} /\ call.allow_write)) =>
                    /\ call.result # NoResult
                    /\ call.valid => RanOnce(call.name)
                    /\ call.valid \/ tool_runs' = tool_runs]_vars

\* a destructive tool that ran with allow_write is held back without it
C17_Witness ==
    /\ tool_result.op = "execute_if_allowed"
    /\ tool_result.name = "delete_item"
    /\ ~tool_result.allow_write
    /\ tool_result.result = NoResult
    /\ tool_runs = SetToBag({ToolRun("delete_item", "executor", NoId)})
    /\ tool_result.n = 2

\* C18: requires_approval is true for every unregistered name and for every
\* WRITE or DESTRUCTIVE tool and false only for a registered READ tool;
\* execute on an unregistered name returns a failed ToolResult and runs nothing
C18_FailSafeOnUnknown ==
    /\ [](tool_result.op = "requires_approval" =>
            (tool_result.answer <=>
                ~(tool_result.name \in ToolNames
                    /\ ToolPermission[tool_result.name] = READ)))
    /\ [][(ExecutorStep("execute") /\ tool_result'.name \notin ToolNames) =>
            /\ ~tool_result'.result.none
            /\ ~tool_result'.result.success
            /\ tool_runs' = tool_runs]_vars

\* requires_approval answered true for a name that is not registered, after
\* execute on that name failed
C18_Witness ==
    /\ tool_result.op = "requires_approval"
    /\ tool_result.name = "nonexistent"
    /\ tool_result.answer
    /\ tool_result.n = 2
    /\ tool_runs = EmptyBag

-----------------------------------------------------------------------------
(* The session store driven directly *)

SpecSessions == Init /\ [][NextSessions]_vars

SessionStep(op, token) ==
    /\ session_call'.n = session_call.n + 1
    /\ session_call'.op = op
    /\ session_call'.token = token

Stored(token) == session_key(token) \in DOMAIN _sessions

\* C19: get_session(token) returns the same session on every call until
\* clear_session(token): the session it returns is the one later calls find,
\* and while a token has a session no step but clear_session(token) changes
\* which object that is; after clear_session(token) the next
\* get_session(token) returns a session with empty history and no pending
\* approvals: the call leaves the token without a session, nothing but
\* get_session(token) gives it one, and the one it gets is empty
C19_SameSessionUntilCleared ==
    [][\A token \in Tokens :
        LET before == SessionFor(_sessions, sessions_made, token)
            after == SessionFor(_sessions', sessions_made', token)
        IN  /\ SessionStep("get_session", token) =>
                    /\ session_call'.session.oid = before.oid
                    /\ after = session_call'.session
            /\ (Stored(token) /\ ~SessionStep("clear_session", token)) =>
                    after.oid = before.oid
            /\ SessionStep("clear_session", token) =>
                    /\ after.messages = <<>>
                    /\ after.pending_approvals = {}
                    /\ ~Stored(token)'
            /\ (~Stored(token) /\ ~SessionStep("get_session", token)) =>
                    ~Stored(token)'
            /\ (~Stored(token) /\ SessionStep("get_session", token)) =>
                    /\ session_call'.session.messages = <<>>
                    /\ session_call'.session.pending_approvals = {}]_vars

\* t2 holds the first session and t1 is on its second one: t1's first
\* session was cleared and the get_session after it returned an empty one
C19_Witness ==
    /\ session_call.op = "get_session"
    /\ session_call.token = "t1"
    /\ session_call.session = ChatSession(3)
    /\ Stored("t2")
    /\ _sessions[session_key("t2")].oid = 1
    /\ _sessions[session_key("t2")].messages # <<>>

-----------------------------------------------------------------------------
(* get_router in one thread, save_settings in another *)

SpecRace == Init /\ [][NextRace]_vars

\* C27: once save_settings has returned, and until the next call of it, an
\* installed Router is one built from the profiles that were saved: no
\* interleaving with a concurrent get_router leaves a Router built from the
\* profiles as they were before the save
C27_NoStaleRouter ==
    (saver.pc = "idle" /\ saver.returned > 0 /\ _router.built) =>
        /\ _router.primary = ModelWithStatus(settings_file.llm_profiles, PRIMARY)
        /\ _router.fallback = ModelWithStatus(settings_file.llm_profiles, FALLBACK)

-----------------------------------------------------------------------------
(* ChatSession driven directly: the history API *)

\* every tool-role message has an earlier assistant message naming its id
\* (the data model's invariant), also once msg is appended
KeepsPairing(msgs, msg) ==
    msg.role = "tool" =>
        \E j \in DOMAIN msgs :
            msgs[j].role = "assistant" /\ msg.tool_call_id \in CallIdsOf(msgs[j])

add_message(msg) ==
    /\ messages' = Append(messages, msg)
    /\ view' = NoView
    /\ UNCHANGED <<pending_approvals, now, next_approval, tool_runs, response>>
    /\ UNCHANGED turnVars
    /\ UNCHANGED libVars

\* a get_history that stores the entries it compressed
GetHistoryInPlace(max_messages) ==
    LET entries == get_history(messages, max_messages)
        first == Len(messages) - Len(entries)
    IN  /\ view' = [max_messages |-> max_messages, entries |-> entries]
        /\ messages' = [i \in DOMAIN messages |->
                            IF i > first
                            THEN [messages[i] EXCEPT !.content = entries[i - first].content]
                            ELSE messages[i]]
        /\ UNCHANGED <<pending_approvals, now, next_approval, tool_runs, response>>
        /\ UNCHANGED turnVars
        /\ UNCHANGED libVars

GetHistory(max_messages) ==
    /\ view' = [max_messages |-> max_messages,
                entries |-> get_history(messages, max_messages)]
    /\ UNCHANGED <<messages, pending_approvals, now, next_approval, tool_runs, response>>
    /\ UNCHANGED turnVars
    /\ UNCHANGED libVars

\* session.update_tool_message; the answer records the position written
UpdateToolMessage(tool_call_id, new_content) ==
    /\ messages' = update_tool_message(messages, tool_call_id, new_content)
    /\ response' = Response("update", tool_call_id,
                            FirstToolMessage(messages, tool_call_id), FALSE, NoApproval)
    /\ view' = NoView
    /\ UNCHANGED <<pending_approvals, now, next_approval, tool_runs>>
    /\ UNCHANGED turnVars
    /\ UNCHANGED libVars

ReadCall(id) == ToolCall(id, "list_items")

\* messages of any shape that keeps the pairing invariant
AnyMessages ==
    {UserMessage, AssistantMessage(<<>>)}
    \cup {AssistantMessage(<<ReadCall(id)>>) : id \in CallIds}
    \cup {AssistantMessage(<<ReadCall(1), ReadCall(2)>>)}
    \cup {ToolMessage(id, ToolResultContent("list_items", TRUE)) : id \in CallIds}

AddAnyMessage ==
    /\ Len(messages) < MaxHist
    /\ \E msg \in AnyMessages : KeepsPairing(messages, msg) /\ add_message(msg)

NextHistory ==
    \/ AddAnyMessage
    \/ \E max_messages \in 0..MaxHist : GetHistory(max_messages)

SpecHistory == Init /\ [][NextHistory]_vars

\* the tool-call ids an entry of the returned history declares
EntryCallIds(entry) ==
    IF "tool_calls" \in DOMAIN entry
    THEN {entry.tool_calls[k].id : k \in DOMAIN entry.tool_calls}
    ELSE {}

EntryPaired(entries, k) ==
    \E j \in 1..(k - 1) :
        /\ entries[j].role = "assistant"
        /\ "tool_call_id" \in DOMAIN entries[k]
        /\ entries[k].tool_call_id \in EntryCallIds(entries[j])

\* C5: the window get_history returns never opens with an orphaned tool-role
\* message: when its first or second entry is tool-role, an assistant entry
\* whose tool-call ids include that entry's tool_call_id lies before it in
\* the window.
C5_WindowNeverOpensOrphaned ==
    \A k \in {1, 2} \cap DOMAIN view.entries :
        view.entries[k].role = "tool" => EntryPaired(view.entries, k)

Min(a, b) == IF a <= b THEN a ELSE b

-----------------------------------------------------------------------------
(* ChatSession driven directly: long histories and compression *)

LongMessages ==
    {UserMessage, AssistantMessage(<<ReadCall(1)>>), ToolMessage(1, Placeholder(1))}

\* successful results of the three data shapes
WrittenResults ==
    {Json(TRUE, "list", FALSE), Json(TRUE, "dict_named", FALSE),
     Json(TRUE, "scalar", FALSE)}

AddLongMessage ==
    /\ Len(messages) < MaxLongHist
    /\ \E msg \in LongMessages : KeepsPairing(messages, msg) /\ add_message(msg)

NextLongHistory ==
    \/ AddLongMessage
    \/ \E content \in WrittenResults : UpdateToolMessage(1, content)
    \/ \E max_messages \in {0, MaxLongHist} : GetHistory(max_messages)

SpecLongHistory == Init /\ [][NextLongHistory]_vars

\* position in the returned window of the stored message i, 0 or less when
\* the window does not reach back to it
EntryOf(i) == i - (Len(messages) - Len(view.entries))

WrittenAt == IF response.op = "update" THEN response.status ELSE 0

\* C10 as claimed: the entry get_history returns for a tool-role message
\* written with update_tool_message carries exactly the written content.
C10_RoundTripUnchanged ==
    (view # NoView /\ WrittenAt > 0 /\ EntryOf(WrittenAt) >= 1) =>
        view.entries[EntryOf(WrittenAt)].content = messages[WrittenAt].content

\* C10 as amended: the entry carries exactly the written content when it is
\* one of the last _TOOL_COMPRESSION_THRESHOLD entries of the returned window.
C10_RoundTripWithinThreshold ==
    (/\ view # NoView
     /\ WrittenAt > 0
     /\ EntryOf(WrittenAt) >= 1
     /\ Len(view.entries) - EntryOf(WrittenAt) + 1 <= _TOOL_COMPRESSION_THRESHOLD) =>
        view.entries[EntryOf(WrittenAt)].content = messages[WrittenAt].content

\* C24: get_history never modifies the stored history; in the window it
\* returns, the content of a tool-role entry more than
\* _TOOL_COMPRESSION_THRESHOLD = 6 entries from the end is the compressed form
\* of the stored content, and the content of every tool-role entry within the
\* last 6 and of every other entry is the stored content
C24_CompressedInCopyOnly ==
    /\ [][(view' # view /\ view' # NoView) => messages' = messages]_vars
    /\ [](view # NoView =>
            LET n == Len(messages)
                m == Len(view.entries)
            IN  \A i \in 1..m :
                    LET msg == messages[n - m + i]
                    IN  view.entries[i].content =
                            IF msg.role = "tool" /\ m - i + 1 > 6
                            THEN _compress_tool_result(msg.content)
                            ELSE msg.content)

\* a stored list result is returned as a summary and is still stored in full
C24_Witness ==
    /\ view # NoView
    /\ Len(view.entries) = Len(messages)
    /\ Len(messages) > 6
    /\ messages[2].role = "tool"
    /\ messages[2].content = Json(TRUE, "list", FALSE)
    /\ view.entries[2].content # messages[2].content
    /\ view.entries[2].content.summary = "items returned"

C10_Witness ==
    /\ view # NoView
    /\ WrittenAt > 0
    /\ EntryOf(WrittenAt) >= 1
    /\ Len(view.entries) - EntryOf(WrittenAt) + 1 = _TOOL_COMPRESSION_THRESHOLD
    /\ messages[WrittenAt].content = Json(TRUE, "list", FALSE)
    /\ view.entries[EntryOf(WrittenAt)].content = Json(TRUE, "list", FALSE)

-----------------------------------------------------------------------------
(* ChatSession driven directly: compression of serialised tool results *)

\* the data of successful results: lists up to and beyond the cap, and a
\* single entity with a name
ResultData ==
    {ListData(0), ListData(MAX_RESULT_ITEMS), ListData(MAX_RESULT_ITEMS + 1),
     EntityData(TRUE)}

NextResults ==
    \/ AddLongMessage
    \/ \E data \in ResultData : UpdateToolMessage(1, to_dict(data))
    \/ \E max_messages \in {0, MaxLongHist} : GetHistory(max_messages)

SpecResults == Init /\ [][NextResults]_vars

\* C25: for a tool-role entry beyond the compression distance whose stored
\* content is the serialised form of a successful result, the summary states
\* the number of items when the tool returned a list, of any length, and the
\* entity's name when it returned a single entity
C25_SummaryStatesCountOrName ==
    view # NoView =>
        LET n == Len(messages)
            m == Len(view.entries)
        IN  \A i \in 1..m : \A data \in ResultData :
                (/\ m - i + 1 > _TOOL_COMPRESSION_THRESHOLD
                 /\ messages[n - m + i].role = "tool"
                 /\ messages[n - m + i].content = to_dict(data)) =>
                    LET summary == view.entries[i].content
                    IN  /\ data.shape = "list" =>
                            /\ summary.summary = "items returned"
                            /\ summary.count = data.len
                        /\ data.shape = "dict" =>
                            summary.summary = "Retrieved: name"

-----------------------------------------------------------------------------
(* ChatSession driven directly: the approval API *)

\* the constructor argument expires_at left out: __post_init__ sets it
DefaultExpiry == 0 - 1

\* add_pending_approval of a new approval, with the default expiry or with
\* an explicit expires_at
AddPendingApproval(tool_name, expires_at) ==
    LET id == next_approval + 1
        made == PendingApproval(id, tool_name, now)
        approval == IF expires_at = DefaultExpiry THEN made
                    ELSE [made EXCEPT !.expires_at = expires_at]
    IN  /\ next_approval < MaxApprovals
        /\ next_approval' = id
        /\ pending_approvals' = add_pending_approval(pending_approvals, approval)
        /\ UNCHANGED <<messages, now, tool_runs, response, view, libVars>>
        /\ UNCHANGED turnVars

GetPendingApproval(id) ==
    /\ response' =
          IF Found(pending_approvals, id, now)
          THEN Response("get", id, 200, FALSE, pending_approvals[id])
          ELSE Response("get", id, 404, Evicts(pending_approvals, id, now), NoApproval)
    /\ pending_approvals' = AfterLookup(pending_approvals, id, now)
    /\ UNCHANGED <<messages, now, next_approval, tool_runs, view, libVars>>
    /\ UNCHANGED turnVars

RemoveApproval(id) ==
    /\ pending_approvals' = remove_approval(pending_approvals, id)
    /\ response' = Response("remove", id,
                            IF id \in DOMAIN pending_approvals THEN 200 ELSE 404,
                            FALSE, NoApproval)
    /\ UNCHANGED <<messages, now, next_approval, tool_runs, view, libVars>>
    /\ UNCHANGED turnVars

\* session.list_pending_approvals(): sweep, then the values that remain
ListPendingApprovals ==
    LET kept == cleanup_expired(pending_approvals, now)
    IN  /\ pending_approvals' = kept
        /\ response' = [Response("list_pending_approvals", NoId, 200, FALSE, NoApproval)
                            EXCEPT !.listed = {kept[a] : a \in DOMAIN kept}]
        /\ UNCHANGED <<messages, now, next_approval, tool_runs, view, libVars>>
        /\ UNCHANGED turnVars

\* session.cleanup_expired(): delete the expired ids, return how many
CleanupExpired ==
    /\ pending_approvals' = cleanup_expired(pending_approvals, now)
    /\ response' = [Response("cleanup_expired", NoId, 200, FALSE, NoApproval)
                        EXCEPT !.removed = Cardinality(ExpiredIds(pending_approvals, now))]
    /\ UNCHANGED <<messages, now, next_approval, tool_runs, view, libVars>>
    /\ UNCHANGED turnVars

NextApprovals ==
    \/ \E tool_name \in ToolNames, expires_at \in {DefaultExpiry} \cup 0..MaxTime :
          AddPendingApproval(tool_name, expires_at)
    \/ \E id \in ApprovalIds : GetPendingApproval(id)
    \/ \E id \in ApprovalIds : RemoveApproval(id)
    \/ list_pending_approvals
    \/ ListPendingApprovals
    \/ CleanupExpired
    \/ Tick

SpecApprovals == Init /\ [][NextApprovals]_vars

GetStep(id) ==
    /\ response' # response
    /\ response'.op = "get"
    /\ response'.id = id

\* C8: get_pending_approval called before the expiry time returns the stored
\* approval and leaves the pending set unchanged; called after the expiry
\* time it returns None and removes exactly that approval; and an approval
\* that is gone stays gone, so every later call returns None.
C8_LookupIdempotentThenGone ==
    /\ [][\A id \in ApprovalIds :
            GetStep(id) =>
                /\ (id \in DOMAIN pending_approvals
                    /\ now < pending_approvals[id].expires_at) =>
                        /\ response'.status = 200
                        /\ response'.approval = pending_approvals[id]
                        /\ pending_approvals' = pending_approvals
                /\ (id \in DOMAIN pending_approvals
                    /\ now > pending_approvals[id].expires_at) =>
                        /\ response'.status = 404
                        /\ response'.approval = NoApproval
                        /\ DOMAIN pending_approvals' = DOMAIN pending_approvals \ {id}
                /\ id \notin DOMAIN pending_approvals =>
                        /\ response'.status = 404
                        /\ response'.approval = NoApproval
                        /\ pending_approvals' = pending_approvals]_vars
    /\ [][\A id \in 1..next_approval :
            id \notin DOMAIN pending_approvals => id \notin DOMAIN pending_approvals']_vars

C8_Witness ==
    /\ response.op = "get"
    /\ response.status = 404
    /\ response.evicted
    /\ response.id \notin DOMAIN pending_approvals
    /\ pending_approvals # <<>>

SessionCallStep(op) == response' # response /\ response'.op = op

\* the approvals of the session that are not expired now
Unexpired == {a \in DOMAIN pending_approvals : now <= pending_approvals[a].expires_at}

\* C20: list_pending_approvals returns exactly the approvals that are not
\* expired at the time of the call and removes every expired one;
\* cleanup_expired returns the number of approvals it removed and keeps
\* every unexpired one
C20_SweepExact ==
    [][/\ SessionCallStep("list_pending_approvals") =>
            /\ response'.listed = {pending_approvals[a] : a \in Unexpired}
            /\ DOMAIN pending_approvals' = Unexpired
       /\ SessionCallStep("cleanup_expired") =>
            /\ response'.removed =
                    Cardinality(DOMAIN pending_approvals \ DOMAIN pending_approvals')
            /\ DOMAIN pending_approvals' \subseteq DOMAIN pending_approvals
            /\ \A a \in Unexpired :
                    /\ a \in DOMAIN pending_approvals'
                    /\ pending_approvals'[a] = pending_approvals[a]]_vars

\* a sweep removed one approval and kept one that expires at this instant
C20_Witness ==
    /\ response.op = "cleanup_expired"
    /\ response.removed = 1
    /\ \E a \in DOMAIN pending_approvals : pending_approvals[a].expires_at = now

-----------------------------------------------------------------------------
(* Two approve requests on one event loop: approve_action suspends at
   await tool.execute, and another request may run meanwhile *)

approveFrame ==
    /\ UNCHANGED <<now, next_approval, view, json_call, llmVars, svcVars,
                   repair_request, builder, saver, authVars>>
    /\ UNCHANGED turnVars

\* approve_action from its entry to the await: the lookup, the tool lookup
\* and the validation of the merged parameters
ApproveBegin(r, id, outcome) ==
    /\ in_flight[r].pc = "idle"
    /\ IF ~Found(pending_approvals, id, now)
       THEN /\ pending_approvals' = AfterLookup(pending_approvals, id, now)
            /\ response' = Response("approve", id, 404,
                                    Evicts(pending_approvals, id, now), NoApproval)
            /\ UNCHANGED in_flight
       ELSE IF outcome = "unregistered"
       THEN /\ pending_approvals' = remove_approval(pending_approvals, id)
            /\ response' = Response("approve", id, 500, FALSE, NoApproval)
            /\ UNCHANGED in_flight
       ELSE IF outcome = "invalid"
       THEN /\ pending_approvals' = remove_approval(pending_approvals, id)
            /\ response' = Response("approve", id, 400, FALSE, NoApproval)
            /\ UNCHANGED in_flight
       ELSE /\ in_flight' = [in_flight EXCEPT ![r] =
                    [pc |-> "awaiting", id |-> id,
                     approval |-> pending_approvals[id],
                     tool_call_id |-> get_tool_call_id_for_approval(messages, id)]]
            /\ UNCHANGED <<pending_approvals, response>>
    /\ UNCHANGED <<messages, tool_runs>>
    /\ approveFrame

\* approve_action from the await on: the tool has acted on the inventory and
\* returned a ToolResult or raised
ApproveResume(r, outcome) ==
    LET request == in_flight[r]
    IN  /\ request.pc = "awaiting"
        /\ tool_runs' = tool_runs (+)
              SetToBag({ToolRun(request.approval.tool_name, "approve", request.id)})
        /\ IF outcome = "raised"
           THEN /\ response' = Response("approve", request.id, 500, FALSE, NoApproval)
                /\ UNCHANGED messages
           ELSE /\ messages' =
                     IF request.tool_call_id # NoId
                     THEN update_tool_message(messages, request.tool_call_id,
                              ResultMessage(request.approval.tool_name, outcome = "ok"))
                     ELSE messages
                /\ response' = Response("approve", request.id, 200, FALSE, NoApproval)
        /\ pending_approvals' = remove_approval(pending_approvals, request.id)
        /\ in_flight' = [in_flight EXCEPT ![r] = NoRequest]
        /\ approveFrame

NextConcurrentApprove ==
    \/ \E tool_name \in ToolNames : AddPendingApproval(tool_name, DefaultExpiry)
    \/ \E r \in Requests, id \in ApprovalIds, outcome \in Outcomes :
          ApproveBegin(r, id, outcome)
    \/ \E r \in Requests, outcome \in {"ok", "failed", "raised"} :
          ApproveResume(r, outcome)
    \/ Tick

SpecConcurrentApprove == Init /\ [][NextConcurrentApprove]_vars

\* C28: whatever the interleaving of two approve requests for one approval
\* id, the approved tool acts on the inventory at most once for that id
C28_EffectAtMostOnce ==
    \A id \in ApprovalIds : ApproveRuns(tool_runs, id) <= 1

-----------------------------------------------------------------------------
(* TokenValidator and get_token (server/dependencies.py): the singleton
   token_validator = TokenValidator(), whose ttl is _DEFAULT_TTL *)

\* sha256(token).hexdigest()[:16]; the tokens of the model have distinct hashes
_hash(token) == [t1 |-> "h1", t2 |-> "h2"][token]

_ttl == _DEFAULT_TTL

SweepDue(last, t) == ~(t - last < _CLEANUP_INTERVAL)

\* _maybe_cleanup_expired: at most once per interval, drop what is older than ttl
_maybe_cleanup_expired(cache, last, t) ==
    IF SweepDue(last, t)
    THEN [k \in {x \in DOMAIN cache : ~(t - cache[x] > _ttl)} |-> cache[k]]
    ELSE cache

\* a lookup that never looks at the age of the entry
is_cached_unexpiring(cache, last, key, t) == key \in DOMAIN cache

\* is_cached: the value returned
is_cached(cache, last, key, t) ==
    LET swept == _maybe_cleanup_expired(cache, last, t)
    IN  /\ key \in DOMAIN swept
        /\ ~(t - swept[key] > _ttl)

\* is_cached: the cache it leaves
CacheAfterIsCached(cache, last, key, t) ==
    LET swept == _maybe_cleanup_expired(cache, last, t)
    IN  IF key \in DOMAIN swept /\ t - swept[key] > _ttl
        THEN DictWithout(swept, key)
        ELSE swept

\* the lookup meets an entry of this key that is older than ttl
FindsExpired(cache, key, t) == key \in DOMAIN cache /\ t - cache[key] > _ttl

authFrame == UNCHANGED <<chatVars, json_call, llmVars, svcVars,
                         repair_request, in_flight, builder, saver>>

IsCached(token) ==
    LET key == _hash(token)
        t == clock.time
    IN  /\ auth_call' = AuthCall("is_cached", token, 0,
                                 is_cached(_cache, _last_cleanup, key, t), FALSE,
                                 FindsExpired(_cache, key, t), 1 - auth_call.serial)
        /\ _cache' = CacheAfterIsCached(_cache, _last_cleanup, key, t)
        /\ _last_cleanup' = IF SweepDue(_last_cleanup, t) THEN t ELSE _last_cleanup
        /\ UNCHANGED <<clock, marked_at>>
        /\ authFrame

MarkValid(token) ==
    /\ _cache' = DictWith(_cache, _hash(token), clock.time)
    /\ marked_at' = [marked_at EXCEPT ![token] = clock.time]
    /\ auth_call' = AuthCall("mark_valid", token, 0, FALSE, FALSE, FALSE,
                             1 - auth_call.serial)
    /\ UNCHANGED <<_last_cleanup, clock>>
    /\ authFrame

Reset ==
    /\ _cache' = <<>>
    /\ marked_at' = [token \in Tokens |-> NoTime]
    /\ auth_call' = AuthCall("reset", "", 0, FALSE, FALSE, FALSE, 1 - auth_call.serial)
    /\ UNCHANGED <<_last_cleanup, clock>>
    /\ authFrame

\* get_token: the header is missing, is not a Bearer header, or carries a
\* token; valid is the answer of client.validate_token when it is asked
get_token(authorization, token, valid) ==
    LET key == _hash(token)
        t == clock.time
        cached == is_cached(_cache, _last_cleanup, key, t)
        looked == CacheAfterIsCached(_cache, _last_cleanup, key, t)
    IN  /\ IF authorization # "bearer"
           THEN /\ auth_call' = AuthCall("get_token", "", 401, FALSE, FALSE, FALSE,
                                        1 - auth_call.serial)
                /\ UNCHANGED <<_cache, _last_cleanup, marked_at>>
           ELSE /\ auth_call' = AuthCall("get_token", token,
                                        IF cached \/ valid THEN 200 ELSE 401,
                                        cached, ~cached,
                                        FindsExpired(_cache, key, t),
                                        1 - auth_call.serial)
                /\ _cache' = IF ~cached /\ valid THEN DictWith(looked, key, t)
                             ELSE looked
                /\ marked_at' = IF ~cached /\ valid
                                THEN [marked_at EXCEPT ![token] = t]
                                ELSE marked_at
                /\ _last_cleanup' = IF SweepDue(_last_cleanup, t) THEN t
                                    ELSE _last_cleanup
        /\ UNCHANGED clock
        /\ authFrame

\* time passes: a second, or a whole ttl
ClockAdvance(d) ==
    /\ clock.ticks < MaxTicks
    /\ clock' = [time |-> clock.time + d, ticks |-> clock.ticks + 1]
    /\ UNCHANGED <<_cache, _last_cleanup, marked_at, auth_call>>
    /\ authFrame

NextAuth ==
    \/ \E token \in Tokens : IsCached(token)
    \/ \E token \in Tokens : MarkValid(token)
    \/ Reset
    \/ \E authorization \in {"missing", "basic", "bearer"}, token \in Tokens,
          valid \in BOOLEAN : get_token(authorization, token, valid)
    \/ \E d \in {1, _ttl} : ClockAdvance(d)

SpecAuth == Init /\ [][NextAuth]_vars

AuthStep(op, token) ==
    /\ auth_call' # auth_call
    /\ auth_call'.op = op
    /\ auth_call'.token = token

\* C30: is_cached(token) answers true only when mark_valid(token) was called
\* at most ttl seconds before, with no reset since; a lookup, by is_cached or
\* by get_token, that meets an entry older than ttl answers not cached and
\* leaves no such entry, and get_token then asks the inventory service and
\* accepts the token only on its answer.
C30_CachedOnlyWhileFresh ==
    [][\A token \in Tokens :
          LET key == _hash(token)
              lookup == AuthStep("is_cached", token) \/ AuthStep("get_token", token)
          IN  /\ (lookup /\ auth_call'.answer) =>
                    /\ marked_at[token] # NoTime
                    /\ clock.time - marked_at[token] <= _ttl
              /\ (lookup /\ FindsExpired(_cache, key, clock.time)) =>
                    /\ ~auth_call'.answer
                    /\ ~FindsExpired(_cache', key, clock.time)
                    /\ AuthStep("is_cached", token) => key \notin DOMAIN _cache'
                    /\ AuthStep("get_token", token) =>
                          /\ auth_call'.validated
                          /\ auth_call'.status = 200 <=> key \in DOMAIN _cache'
                          /\ key \in DOMAIN _cache' => _cache'[key] = clock.time]_vars

C30_Witness ==
    /\ auth_call.op = "get_token"
    /\ auth_call.evicted
    /\ auth_call.validated
    /\ auth_call.status = 200
    /\ marked_at[auth_call.token] = clock.time
    /\ clock.time > _ttl

====
